---- MODULE Spec2Model ----
(***************************************************************************)
(* SafeLink sandbox: the session broker (SessionManager), the session      *)
(* life cycle (SandboxSession) and the WebSocket connection handlers of    *)
(* the sandbox server.                                                     *)
(*                                                                         *)
(* JavaScript runs every handler to its next `await` without interruption, *)
(* so one action is one synchronous segment: a handler from its start to   *)
(* its first suspended await, or a continuation from the await that        *)
(* resolved to the next one.  An await on a value that is already settled  *)
(* continues in a microtask, before any other event is delivered, and is   *)
(* therefore part of the same action.                                      *)
(***************************************************************************)
EXTENDS Integers, Sequences, FiniteSets, TLC

\* ------------------------------------------------------------------------
\* Bounds of the model
\* ------------------------------------------------------------------------
NumConns == 2        \* WebSocket connections that may arrive
MaxStarts == 1       \* 'start' commands with an accepted URL
MaxEvents == 3       \* commands, closed sockets, faults and direct calls
MaxAnalyses == 2     \* analyzeInBackground calls that may be started
MaxReqs == 2         \* 'analyze' requests sent to the analysis server
MaxHostLen == 2      \* length of the generated hostnames
MaxStrLen == 3       \* length of the strings compared for similarity
MaxRestarts == 2     \* 'start' commands one connection may send
MaxTime == 4         \* ticks of the clock
SESSION_TIMEOUT == 2 \* the idle window of the watchdog, in ticks

\* ------------------------------------------------------------------------
\* Program constants
\* ------------------------------------------------------------------------
MAX_REDIRECTS == 5

Conns == 1..NumConns
Tasks == 1..MaxStarts
Handles == 1..MaxStarts
Analyses == 1..MaxAnalyses
Reqs == 1..MaxReqs
\* responses are counted up to two past the ceiling
RedirectCap == MAX_REDIRECTS + 2

\* ------------------------------------------------------------------------
\* Strings as sequences of characters
\* ------------------------------------------------------------------------
Digits == {"0", "1", "2", "3", "4", "5", "6", "7", "8", "9"}

StartsWith(h, p) == Len(h) >= Len(p) /\ SubSeq(h, 1, Len(p)) = p

\* a string literal as the sequence of its characters
Chars(str) == [i \in 1..Len(str) |-> SubSeq(str, i, i)]

UpperCase == Chars("ABCDEFGHIJKLMNOPQRSTUVWXYZ")

LowerCase == Chars("abcdefghijklmnopqrstuvwxyz")

Letters == {LowerCase[i] : i \in 1..26}

UpperToLower == [c \in {UpperCase[i] : i \in 1..26} |->
    LowerCase[CHOOSE i \in 1..26 : UpperCase[i] = c]]

ToLower(h) == [i \in 1..Len(h) |->
    IF h[i] \in DOMAIN UpperToLower THEN UpperToLower[h[i]] ELSE h[i]]

\* the hostname patterns of BLOCKED_PATTERNS, in order
BlockedLoopback127(h) == StartsWith(h, <<"1", "2", "7", ".">>)

Blocked192(h) == StartsWith(h, <<"1", "9", "2", ".", "1", "6", "8", ".">>)

Blocked10(h) == StartsWith(h, <<"1", "0", ".">>)

Blocked172(h) ==
    /\ StartsWith(h, <<"1", "7", "2", ".">>)
    /\ Len(h) >= 7
    /\ \/ h[5] = "1" /\ h[6] \in {"6", "7", "8", "9"}
       \/ h[5] = "2" /\ h[6] \in Digits
       \/ h[5] = "3" /\ h[6] \in {"0", "1"}
    /\ h[7] = "."

BlockedLocalhost(h) == ToLower(h) = <<"l", "o", "c", "a", "l", "h", "o", "s", "t">>

BlockedZero(h) == h = <<"0", ".", "0", ".", "0", ".", "0">>

BlockedV6(h) == h = <<":", ":", "1">>

BlockedV6Bracket(h) == h = <<"[", ":", ":", "1", "]">>

BLOCKED_PATTERNS(h) ==
    \/ BlockedLoopback127(h)
    \/ Blocked192(h)
    \/ Blocked10(h)
    \/ Blocked172(h)
    \/ BlockedLocalhost(h)
    \/ BlockedZero(h)
    \/ BlockedV6(h)
    \/ BlockedV6Bracket(h)

\* ------------------------------------------------------------------------
\* URLs.  A URL given to `new URL(url)` either fails to parse or yields a
\* protocol and a hostname.  The table holds the URLs a client may send;
\* index 0 stands for a missing (falsy) url.
\* ------------------------------------------------------------------------
UrlTable == <<
    [parses |-> TRUE, protocol |-> "https:",
     hostname |-> <<"a", ".", "c", "o">>],
    [parses |-> TRUE, protocol |-> "ftp:",
     hostname |-> <<"a", ".", "c", "o">>],
    [parses |-> TRUE, protocol |-> "http:",
     hostname |-> <<"1", "2", "7", ".", "0", ".", "0", ".", "1">>],
    [parses |-> TRUE, protocol |-> "https:",
     hostname |-> <<"1", "7", "2", ".", "2", "0", ".", "0", ".", "1">>],
    [parses |-> TRUE, protocol |-> "http:",
     hostname |-> <<"l", "o", "c", "a", "l", "h", "o", "s", "t">>],
    [parses |-> FALSE, protocol |-> "", hostname |-> <<>>]
  >>

Urls == 1..Len(UrlTable)

\* validateUrl(url).safe over a parsed URL with one pattern left out
ValidateUrlNoLoopback(u) ==
    /\ u.parses
    /\ u.protocol \in {"http:", "https:"}
    /\ LET hostname == ToLower(u.hostname) IN
         ~(Blocked192(hostname) \/ Blocked10(hostname) \/ Blocked172(hostname)
           \/ BlockedLocalhost(hostname) \/ BlockedZero(hostname)
           \/ BlockedV6(hostname) \/ BlockedV6Bracket(hostname))

\* validateUrl(url).safe
ValidateUrl(u) ==
    /\ u.parses
    /\ u.protocol \in {"http:", "https:"}
    /\ LET hostname == ToLower(u.hostname) IN ~BLOCKED_PATTERNS(hostname)

\* ------------------------------------------------------------------------
\* State
\* ------------------------------------------------------------------------
VARIABLES
    maxSessions,   \* SessionManager.maxSessions
    sessions,      \* SessionManager.sessions: ids of the registered sessions
    allPending,    \* a cleanupAll() call is awaiting Promise.all
    removePending, \* sessions on which a removeSession() call is awaiting
    ws,            \* per connection: "idle", "open", "closed", "refused"
    sess,          \* per connection: the fields of its SandboxSession
    cl,            \* per connection and caller: a suspended cleanup() call
    stopPend,      \* per connection: stop() calls suspended in stopScreencast
    task,          \* per 'start' command: the suspended initialize() call
    engine,        \* per browser handle: what the automation engine saw
    onCloseCalls,  \* per connection: how often the removal hook ran
    events,        \* events the environment may still cause
    last,          \* the step taken last
    out,           \* the messages sent to clients by the step taken last
    analysis,      \* per analyzeInBackground call: its position and events
    req,           \* per 'analyze' request of the analysis server: its state
    call,          \* a call of a pure function: name, arguments, result
    proc,          \* the server process: running, shutting down, exited
    now,           \* the time, in ticks
    inputs         \* per connection: the input events handleInput accepted

vars == <<maxSessions, sessions, allPending, removePending, ws, sess, cl,
          stopPend, task, engine, onCloseCalls, events, last, out,
          analysis, req, call, proc, now, inputs>>

\* the clock and the input events
clock == <<now, inputs>>

\* the state outside the session broker and the session life cycle
ext == <<analysis, req, call, proc, clock>>

\* the state of the session broker and of the sessions
core == <<maxSessions, sessions, allPending, removePending, ws, sess, cl,
          stopPend, task, engine, onCloseCalls, events, last, out>>

\* a verdict of analyzeWithAIMultimodal that does not exist yet
NoVerdict == [thrown |-> FALSE, enabled |-> FALSE, riskScore |-> -1,
              riskLevel |-> ""]

\* the four collectors of collectAnalysisData
Collectors == {"screenshot", "html", "forms", "scripts"}

\* nothing collected yet
NoData == [c \in Collectors |-> "none"]

\* no analyzeInBackground call yet: the session it runs for, its page, the
\* page URL and the original URL it was called with (the url and originalUrl
\* of analysis_started), the events it handed to sendMessage so far, the
\* collectors that failed and the data collected, the page URL that
\* collectAnalysisData read (the url of analysis_complete), how the request
\* to the AI engine went, and the verdict
AnIdle == [pc |-> "unused", s |-> 0, h |-> 0, url |-> 0, orig |-> 0,
           sent |-> <<>>, failed |-> {}, data |-> NoData, dataUrl |-> 0,
           ai |-> "", verdict |-> NoVerdict]

\* no 'analyze' request yet: its url, whether the client's socket is open,
\* whether a browser was launched for it, and the messages delivered to the
\* client for it so far
ReqIdle == [pc |-> "unused", url |-> 0, open |-> TRUE, launched |-> FALSE,
            sent |-> <<>>]

\* no call of a pure function: its name, up to three arguments, whether it
\* returned, and what it returned
CallNone == [fn |-> "none", a |-> <<>>, b |-> <<>>, c |-> <<>>,
             done |-> FALSE, res |-> 0]

\* the process before any signal: gracefulShutdown not entered, the forced
\* exit timer not armed, no exit code; OPENROUTER_API_KEY is set; hung holds
\* the browsers whose close() never settles
ProcRunning == [pc |-> "running", timer |-> FALSE, code |-> -1,
                apiKey |-> TRUE, hung |-> {}]

\* no input event yet: the engine calls of the accepted events that are
\* still awaited, and the time of the last accepted event
InputsNone == [pend |-> <<>>, at |-> -1]

\* the clock at its start, no input event
ClockIdle ==
    /\ now = 0
    /\ inputs = [c \in 1..NumConns |-> InputsNone]

\* the state in which nothing but the session broker is used
ExtIdle ==
    /\ analysis = [a \in Analyses |-> AnIdle]
    /\ req = [r \in Reqs |-> ReqIdle]
    /\ call = CallNone
    /\ proc = ProcRunning
    /\ ClockIdle

Origins == {"timeout", "close", "init", "remove", "all"}

\* new SandboxSession(ws, options)
SessNew == [browser |-> 0, page |-> 0, cdpClient |-> 0, isActive |-> FALSE,
            timer |-> FALSE, due |-> 0, redirectCount |-> 0, currentUrl |-> 0,
            originalUrl |-> 0]

\* resetTimeout(): the timer that was armed is cleared, a new one is armed
\* for a full window from now
ResetTimeout(st) == [st EXCEPT !.timer = TRUE, !.due = now + SESSION_TIMEOUT]

\* clearTimeout()
ClearTimeout(st) == [st EXCEPT !.timer = FALSE, !.due = 0]

\* what a caller of cleanup() found: the session registered (reg), and
\* initialized, i.e. holding the currentUrl of a successful initialize (live)
At(s) == [reg |-> s \in sessions, live |-> sess[s].currentUrl # 0]

AtNone == [reg |-> FALSE, live |-> FALSE]

ClIdle == [pc |-> "idle", h |-> 0, at |-> AtNone]

TaskIdle == [pc |-> "unused", s |-> 0, url |-> 0, h |-> 0]

TaskDone == [pc |-> "done", s |-> 0, url |-> 0, h |-> 0]

\* a browser handle: its session, the response handlers registered on its
\* page, whether page.goto was called, the close() calls and their
\* completion; for its CDP client the Page.screencastFrame handlers
\* registered on it and whether the screencast runs; the URL of the main
\* frame of its page, page.url() (0 for about:blank)
EngineNew == [owner |-> 0, hooks |-> 0, nav |-> FALSE, closeCalls |-> 0,
              closed |-> FALSE, frameHandlers |-> 0, casting |-> FALSE,
              url |-> 0]

\* the step taken last: the handler, its connection and, when the step called
\* or resumed cleanup(), the caller of that cleanup, whether the cleanup
\* returned in this step and what the caller of that cleanup found; for a
\* frame event the browser handle it came from, the handle whose client
\* received the acknowledgements, and their number
CStep(op, s, o, fin, at) ==
    [op |-> op, s |-> s, o |-> o, fin |-> fin, at |-> at, h |-> 0,
     ackTo |-> 0, acks |-> 0]

Step(op, s) == CStep(op, s, "", FALSE, AtNone)

\* session.send(data): delivered only while the socket is open
Send(c, msgs) == IF ws[c] = "open" THEN msgs ELSE <<>>

Status(c, state) == [to |-> c, type |-> "status", state |-> state, sid |-> c]

\* the status messages of the connection handler carry no session id
RawStatus(c, state) == [to |-> c, type |-> "status", state |-> state, sid |-> 0]

\* the session broker after construction, before any connection
InitSessions ==
    /\ maxSessions \in 1..NumConns
    /\ sessions = {}
    /\ allPending = FALSE
    /\ removePending = {}
    /\ ws = [c \in Conns |-> "idle"]
    /\ sess = [c \in Conns |-> SessNew]
    /\ cl = [c \in Conns |-> [o \in Origins |-> ClIdle]]
    /\ stopPend = [c \in Conns |-> 0]
    /\ task = [t \in Tasks |-> TaskIdle]
    /\ engine = [h \in Handles |-> EngineNew]
    /\ onCloseCalls = [c \in Conns |-> 0]
    /\ events = MaxEvents
    /\ last = Step("init", 0)
    /\ out = <<>>

Init == InitSessions /\ ExtIdle


\* a step the environment causes (a client command, a closed socket, a
\* rejected engine call, a direct call of the manager); an expiring timer and
\* the continuation of a suspended call are not counted
Event == events > 0 /\ events' = events - 1

\* ------------------------------------------------------------------------
\* SessionManager
\* ------------------------------------------------------------------------
\* hasCapacity()
HasCapacity == Cardinality(sessions) < maxSessions

\* the capacity test of createSession, off by one
CreateSessionRefusesOffByOne == Cardinality(sessions) > maxSessions

\* createSession: TRUE when the call is refused (returns null)
CreateSessionRefuses == Cardinality(sessions) >= maxSessions

\* wss.on('connection') with the status message left out on refusal
ConnectSilent(c) ==
    /\ ws[c] = "idle"
    /\ IF ~HasCapacity \/ CreateSessionRefuses
       THEN /\ out' = <<>>
            /\ ws' = [ws EXCEPT ![c] = "refused"]
            /\ last' = Step("connectRefused", c)
            /\ UNCHANGED sessions
       ELSE /\ sessions' = sessions \cup {c}
            /\ ws' = [ws EXCEPT ![c] = "open"]
            /\ out' = <<Status(c, "connected")>>
            /\ last' = Step("connect", c)
    /\ UNCHANGED <<ext, maxSessions, allPending, removePending, sess, cl, stopPend,
                   task, engine, onCloseCalls, events>>

\* wss.on('connection'): capacity check, createSession, null check
Connect(c) ==
    /\ ws[c] = "idle"
    /\ IF ~HasCapacity
       THEN /\ out' = <<RawStatus(c, "error")>>
            /\ ws' = [ws EXCEPT ![c] = "refused"]
            /\ last' = Step("connectRefused", c)
            /\ UNCHANGED sessions
       ELSE IF CreateSessionRefuses
       THEN /\ out' = <<RawStatus(c, "error")>>
            /\ ws' = [ws EXCEPT ![c] = "refused"]
            /\ last' = Step("connectNull", c)
            /\ UNCHANGED sessions
       ELSE /\ sessions' = sessions \cup {c}
            /\ ws' = [ws EXCEPT ![c] = "open"]
            /\ out' = <<Status(c, "connected")>>
            /\ last' = Step("connect", c)
    /\ UNCHANGED <<ext, maxSessions, allPending, removePending, sess, cl, stopPend,
                   task, engine, onCloseCalls, events>>

\* createSession(ws, options) called on the manager directly, for a transport
\* that did not go through the capacity check of the connection handler
ApiCreateSession(c) ==
    /\ ws[c] = "idle"
    /\ out' = <<>>
    /\ IF CreateSessionRefuses
       THEN /\ ws' = [ws EXCEPT ![c] = "refused"]
            /\ last' = Step("createNull", c)
            /\ UNCHANGED sessions
       ELSE /\ sessions' = sessions \cup {c}
            /\ ws' = [ws EXCEPT ![c] = "open"]
            /\ last' = Step("create", c)
    /\ Event
    /\ UNCHANGED <<ext, maxSessions, allPending, removePending, sess, cl, stopPend,
                   task, engine, onCloseCalls>>

\* ------------------------------------------------------------------------
\* SandboxSession.cleanup
\* ------------------------------------------------------------------------
\* the last segment: state reset, then the onClose hook
CleanupFinish(st) ==
    [st |-> [st EXCEPT !.page = 0, !.isActive = FALSE, !.currentUrl = 0],
     pc |-> "idle", h |-> 0, fin |-> TRUE]

\* from `if (this.browser)`: close() is called and awaited
CleanupAfterStop(st) ==
    IF st.browser # 0
    THEN [st |-> st, pc |-> "browserClose", h |-> st.browser, fin |-> FALSE]
    ELSE CleanupFinish(st)

\* cleanup() from its call to its first suspended await
CleanupCall(st) ==
    LET st1 == ClearTimeout(st) IN
    IF st.cdpClient # 0
    THEN [st |-> st1, pc |-> "stopScreencast", h |-> st.cdpClient,
          fin |-> FALSE]
    ELSE CleanupAfterStop(st1)

\* the sessions still awaited by cleanupAll() once s has finished
AllWaiting(s) == {x \in Conns \ {s} : cl[x]["all"].pc # "idle"}

\* the effect of one cleanup segment r of session s, called by o: the session
\* fields, the suspended call, browser.close() reaching the engine, and, when
\* cleanup returns, the onClose hook (sessions.delete) followed by what the
\* caller does after its await (removeSession: sessions.delete; cleanupAll:
\* sessions.clear() once every cleanup it awaits has returned)
ApplyCleanup(s, o, r, at, eng) ==
    /\ sess' = [sess EXCEPT ![s] = r.st]
    /\ cl' = [cl EXCEPT ![s][o] =
                 IF r.fin THEN ClIdle ELSE [pc |-> r.pc, h |-> r.h, at |-> at]]
    /\ engine' = IF r.pc = "browserClose"
                 THEN [eng EXCEPT ![r.h].closeCalls = @ + 1]
                 ELSE eng
    /\ onCloseCalls' = IF r.fin THEN [onCloseCalls EXCEPT ![s] = @ + 1]
                       ELSE onCloseCalls
    /\ removePending' = IF o = "remove"
                        THEN (IF r.fin THEN removePending \ {s}
                              ELSE removePending \cup {s})
                        ELSE removePending
    /\ IF r.fin /\ o = "all" /\ AllWaiting(s) = {}
       THEN sessions' = {} /\ allPending' = FALSE
       ELSE /\ sessions' = IF r.fin THEN sessions \ {s} ELSE sessions
            /\ UNCHANGED allPending

\* a suspended cleanup() continues after stopScreencast or browser.close()
\* settled (resolved or rejected: both are swallowed)
CleanupResume(s, o) ==
    /\ cl[s][o].pc # "idle"
    /\ LET c0 == cl[s][o]
           r == IF c0.pc = "stopScreencast"
                THEN CleanupAfterStop([sess[s] EXCEPT !.cdpClient = 0])
                ELSE CleanupFinish([sess[s] EXCEPT !.browser = 0])
           eng == IF c0.pc = "browserClose"
                  THEN [engine EXCEPT ![c0.h].closed = TRUE]
                  ELSE [engine EXCEPT ![c0.h].casting = FALSE]
       IN /\ ApplyCleanup(s, o, r, c0.at, eng)
          /\ last' = CStep("cleanupResume", s, o, r.fin, c0.at)
    /\ out' = <<>>
    /\ UNCHANGED <<ext, maxSessions, ws, stopPend, task, events>>

\* the watchdog of resetTimeout fires
Watchdog(s) ==
    /\ sess[s].timer
    /\ cl[s]["timeout"].pc = "idle"
    /\ out' = Send(s, <<Status(s, "error")>>)
    /\ LET r == CleanupCall(sess[s]) IN
         /\ ApplyCleanup(s, "timeout", r, At(s), engine)
         /\ last' = CStep("watchdog", s, "timeout", r.fin, At(s))
    /\ UNCHANGED <<ext, maxSessions, ws, stopPend, task, events>>

\* ws.on('close')
WsClose(c) ==
    /\ ws[c] = "open"
    /\ cl[c]["close"].pc = "idle"
    /\ ws' = [ws EXCEPT ![c] = "closed"]
    /\ out' = <<>>
    /\ LET r == CleanupCall(sess[c]) IN
         /\ ApplyCleanup(c, "close", r, At(c), engine)
         /\ last' = CStep("wsClose", c, "close", r.fin, At(c))
    /\ Event
    /\ UNCHANGED <<ext, maxSessions, stopPend, task>>

\* removeSession(sessionId)
RemoveSession(s) ==
    /\ cl[s]["remove"].pc = "idle"
    /\ out' = <<>>
    /\ IF s \in sessions
       THEN LET r == CleanupCall(sess[s]) IN
              /\ ApplyCleanup(s, "remove", r, At(s), engine)
              /\ last' = CStep("removeSession", s, "remove", r.fin, At(s))
       ELSE /\ last' = Step("removeMissing", s)
            /\ UNCHANGED <<sessions, allPending, removePending, sess, cl,
                           engine, onCloseCalls>>
    /\ Event
    /\ UNCHANGED <<ext, maxSessions, ws, stopPend, task>>

\* cleanupAll(): cleanup() is called on every registered session, then all
\* are awaited, then the registry is cleared
CleanupAllCall ==
    /\ ~allPending
    /\ out' = <<>>
    /\ LET R(s) == CleanupCall(sess[s])
           waiting == {s \in sessions : ~R(s).fin}
       IN /\ sess' = [s \in Conns |-> IF s \in sessions THEN R(s).st ELSE sess[s]]
          /\ cl' = [s \in Conns |->
                      IF s \in waiting
                      THEN [cl[s] EXCEPT !["all"] =
                              [pc |-> R(s).pc, h |-> R(s).h, at |-> At(s)]]
                      ELSE cl[s]]
          /\ engine' = [h \in DOMAIN engine |->
                          IF \E s \in sessions :
                               R(s).pc = "browserClose" /\ R(s).h = h
                          THEN [engine[h] EXCEPT !.closeCalls = @ + 1]
                          ELSE engine[h]]
          /\ onCloseCalls' = [s \in Conns |->
                                IF s \in sessions /\ R(s).fin
                                THEN onCloseCalls[s] + 1
                                ELSE onCloseCalls[s]]
          /\ sessions' = waiting
          /\ allPending' = (waiting # {})
          /\ last' = CStep("cleanupAll", 0, "all", waiting = {}, AtNone)

\* a direct call of cleanupAll()
CleanupAll ==
    /\ CleanupAllCall
    /\ Event
    /\ UNCHANGED <<ext, maxSessions, removePending, ws, stopPend, task>>

\* ------------------------------------------------------------------------
\* SandboxSession.initialize, driven by the 'start' command
\* ------------------------------------------------------------------------
\* the catch block of initialize: error status, cleanup(), return false
InitCatch(t, st, pre, eng) ==
    LET s == task[t].s
        r == CleanupCall(st)
    IN /\ cl[s]["init"].pc = "idle"
       /\ out' = Send(s, pre \o <<Status(s, "error")>>)
       /\ ApplyCleanup(s, "init", r, At(s), eng)
       /\ task' = [task EXCEPT ![t] = TaskDone]
       /\ last' = CStep("initCatch", s, "init", r.fin, At(s))

\* message handler, case 'start': originalUrl, validateUrl, resetTimeout,
\* puppeteer.launch
StartCmd(c, u) ==
    /\ ws[c] = "open"
    /\ IF u = 0
       THEN /\ out' = Send(c, <<Status(c, "error")>>)
            /\ last' = Step("startNoUrl", c)
            /\ UNCHANGED <<sess, task>>
       ELSE IF ~ValidateUrl(UrlTable[u])
       THEN /\ sess' = [sess EXCEPT ![c].originalUrl = u]
            /\ out' = Send(c, <<Status(c, "error")>>)
            /\ last' = Step("startRejected", c)
            /\ UNCHANGED task
       ELSE /\ \E x \in DOMAIN task : task[x].pc = "unused"
            /\ sess' = [sess EXCEPT
                         ![c] = ResetTimeout([@ EXCEPT !.originalUrl = u])]
            /\ out' = Send(c, <<Status(c, "loading")>>)
            /\ LET t == CHOOSE x \in DOMAIN task :
                           /\ task[x].pc = "unused"
                           /\ \A y \in DOMAIN task :
                                 task[y].pc = "unused" => x <= y
               IN task' = [task EXCEPT ![t] =
                             [pc |-> "launch", s |-> c, url |-> u, h |-> 0]]
            /\ last' = Step("start", c)
    /\ Event
    /\ UNCHANGED <<ext, maxSessions, sessions, allPending, removePending, ws, cl,
                   stopPend, engine, onCloseCalls>>

\* an awaited engine call of initialize rejects
InitFail(t) ==
    /\ task[t].pc \in {"launch", "newPage", "setViewport", "createCDP", "goto"}
    /\ InitCatch(t, sess[task[t].s], <<>>, engine)
    /\ Event
    /\ UNCHANGED <<ext, maxSessions, ws, stopPend>>

\* puppeteer.launch resolved: this.browser is set, newPage is called
LaunchOk(t) ==
    /\ task[t].pc = "launch"
    /\ engine' = [engine EXCEPT ![t] = [EngineNew EXCEPT !.owner = task[t].s]]
    /\ sess' = [sess EXCEPT ![task[t].s].browser = t]
    /\ task' = [task EXCEPT ![t].pc = "newPage", ![t].h = t]
    /\ last' = Step("launchOk", task[t].s)
    /\ out' = <<>>
    /\ UNCHANGED <<ext, maxSessions, sessions, allPending, removePending, ws, cl,
                   stopPend, onCloseCalls, events>>

\* newPage resolved: this.page is set, setViewport is called
NewPageOk(t) ==
    /\ task[t].pc = "newPage"
    /\ ~engine[task[t].h].closed
    /\ sess' = [sess EXCEPT ![task[t].s].page = task[t].h]
    /\ task' = [task EXCEPT ![t].pc = "setViewport"]
    /\ last' = Step("newPageOk", task[t].s)
    /\ out' = <<>>
    /\ UNCHANGED <<ext, maxSessions, sessions, allPending, removePending, ws, cl,
                   stopPend, engine, onCloseCalls, events>>

\* setViewport resolved: the navigation, download and response handlers are
\* registered on this.page and createCDPSession is called; a page that was
\* reset in between raises a TypeError
SetViewportOk(t) ==
    LET s == task[t].s IN
    /\ task[t].pc = "setViewport"
    /\ ~engine[task[t].h].closed
    /\ IF sess[s].page = 0
       THEN InitCatch(t, sess[s], <<>>, engine)
       ELSE /\ engine' = [engine EXCEPT ![sess[s].page].hooks = @ + 1]
            /\ task' = [task EXCEPT ![t].pc = "createCDP", ![t].h = sess[s].page]
            /\ last' = Step("setViewportOk", s)
            /\ out' = <<>>
            /\ UNCHANGED <<sessions, allPending, removePending, sess, cl,
                           onCloseCalls>>
    /\ UNCHANGED <<ext, maxSessions, ws, stopPend, events>>

\* createCDPSession resolved: this.cdpClient is set, setDownloadBehavior sent
CreateCDPOk(t) ==
    /\ task[t].pc = "createCDP"
    /\ ~engine[task[t].h].closed
    /\ sess' = [sess EXCEPT ![task[t].s].cdpClient = task[t].h]
    /\ task' = [task EXCEPT ![t].pc = "setDownload"]
    /\ last' = Step("createCDPOk", task[t].s)
    /\ out' = <<>>
    /\ UNCHANGED <<ext, maxSessions, sessions, allPending, removePending, ws, cl,
                   stopPend, engine, onCloseCalls, events>>

\* setDownloadBehavior settled (a rejection is logged only): loading status,
\* page.goto is called; a page that was reset in between raises a TypeError
SetDownloadDone(t) ==
    LET s == task[t].s IN
    /\ task[t].pc = "setDownload"
    /\ IF sess[s].page = 0
       THEN InitCatch(t, sess[s], <<Status(s, "loading")>>, engine)
       ELSE /\ engine' = [engine EXCEPT ![sess[s].page].nav = TRUE]
            /\ task' = [task EXCEPT ![t].pc = "goto", ![t].h = sess[s].page]
            /\ last' = Step("setDownloadDone", s)
            /\ out' = Send(s, <<Status(s, "loading")>>)
            /\ UNCHANGED <<sessions, allPending, removePending, sess, cl,
                           onCloseCalls>>
    /\ UNCHANGED <<ext, maxSessions, ws, stopPend, events>>

\* page.goto resolved: the main frame is at the URL that was committed last,
\* the requested one when the load was not redirected; currentUrl is set to
\* the requested URL and isActive to true, initialize returns true and the
\* handler calls startScreencast, which registers its Page.screencastFrame
\* handler on this.cdpClient and awaits Page.startScreencast
GotoOk(t) ==
    LET s == task[t].s IN
    /\ task[t].pc = "goto"
    /\ ~engine[task[t].h].closed
    /\ sess' = [sess EXCEPT ![s].currentUrl = task[t].url, ![s].isActive = TRUE]
    /\ task' = [task EXCEPT ![t] =
                  IF sess[s].cdpClient = 0 THEN TaskDone
                  ELSE [@ EXCEPT !.pc = "startScreencast", !.h = sess[s].cdpClient]]
    /\ LET loaded == [engine EXCEPT ![task[t].h].url =
                                       IF @ = 0 THEN task[t].url ELSE @]
       IN engine' = IF sess[s].cdpClient = 0 THEN loaded
                    ELSE [loaded EXCEPT
                            ![sess[s].cdpClient].frameHandlers = @ + 1]
    /\ last' = Step("gotoOk", s)
    /\ out' = <<>>
    /\ UNCHANGED <<ext, maxSessions, sessions, allPending, removePending, ws, cl,
                   stopPend, onCloseCalls, events>>

\* Page.startScreencast settled: 'ready' status when it resolved
StartScreencastDone(t, ok) ==
    LET s == task[t].s IN
    /\ task[t].pc = "startScreencast"
    /\ ok => ~engine[task[t].h].closed
    /\ IF ok THEN UNCHANGED events ELSE Event
    /\ task' = [task EXCEPT ![t] = TaskDone]
    /\ engine' = IF ok THEN [engine EXCEPT ![task[t].h].casting = TRUE]
                 ELSE engine
    /\ out' = IF ok THEN Send(s, <<Status(s, "ready")>>) ELSE <<>>
    /\ last' = Step(IF ok THEN "screencastOk" ELSE "screencastFail", s)
    /\ UNCHANGED <<ext, maxSessions, sessions, allPending, removePending, ws, sess,
                   cl, stopPend, onCloseCalls>>

\* ------------------------------------------------------------------------
\* stop, redirect tracking, input
\* ------------------------------------------------------------------------
\* stop() up to the await inside stopScreencast; without a CDP client or when
\* inactive nothing is awaited and stop() runs to its end
StopCall(st) ==
    IF st.cdpClient # 0 /\ st.isActive
    THEN [st |-> st, pend |-> 1, msgs |-> <<>>]
    ELSE [st |-> [st EXCEPT !.isActive = FALSE], pend |-> 0,
          msgs |-> <<"connected">>]

\* one run of the page.on('response') handler for a 3xx response
ResponseHandler(a) ==
    LET st1 == [a.st EXCEPT !.redirectCount = @ + 1] IN
    IF st1.redirectCount > MAX_REDIRECTS
    THEN LET r == StopCall(st1) IN
           [st |-> r.st, pend |-> a.pend + r.pend,
            msgs |-> a.msgs \o <<"error">> \o r.msgs]
    ELSE [st |-> st1, pend |-> a.pend, msgs |-> a.msgs]

RECURSIVE ResponseHandlers(_, _)
\* every registered response handler runs once per response
ResponseHandlers(a, n) ==
    IF n = 0 THEN a ELSE ResponseHandlers(ResponseHandler(a), n - 1)

StatusSeq(c, states) == [i \in 1..Len(states) |-> Status(c, states[i])]

\* the page of browser h receives a 3xx response
Response3xx(h) ==
    LET s == engine[h].owner IN
    /\ s # 0
    /\ engine[h].nav
    /\ engine[h].hooks > 0
    /\ ~engine[h].closed
    /\ sess[s].redirectCount + engine[h].hooks <= RedirectCap
    /\ LET r == ResponseHandlers([st |-> sess[s], pend |-> 0, msgs |-> <<>>],
                                 engine[h].hooks)
       IN /\ sess' = [sess EXCEPT ![s] = r.st]
          /\ stopPend' = [stopPend EXCEPT ![s] = @ + r.pend]
          /\ out' = Send(s, StatusSeq(s, r.msgs))
    /\ last' = Step("response3xx", s)
    /\ UNCHANGED <<ext, maxSessions, sessions, allPending, removePending, ws, cl,
                   task, engine, onCloseCalls,
                   events>>

\* message handler, case 'stop'
StopCmd(c) ==
    /\ ws[c] = "open"
    /\ LET r == StopCall(sess[c]) IN
         /\ sess' = [sess EXCEPT ![c] = r.st]
         /\ stopPend' = [stopPend EXCEPT ![c] = @ + r.pend]
         /\ out' = Send(c, StatusSeq(c, r.msgs))
    /\ last' = Step("stop", c)
    /\ Event
    /\ UNCHANGED <<ext, maxSessions, sessions, allPending, removePending, ws, cl,
                   task, engine, onCloseCalls>>

\* stop() continues after Page.stopScreencast settled: the screencast of
\* the session's CDP client has ended
StopResume(s) ==
    /\ stopPend[s] > 0
    /\ stopPend' = [stopPend EXCEPT ![s] = @ - 1]
    /\ sess' = [sess EXCEPT ![s].isActive = FALSE]
    /\ engine' = IF sess[s].cdpClient = 0 THEN engine
                 ELSE [engine EXCEPT ![sess[s].cdpClient].casting = FALSE]
    /\ out' = Send(s, <<Status(s, "connected")>>)
    /\ last' = Step("stopResume", s)
    /\ UNCHANGED <<ext, maxSessions, sessions, allPending, removePending, ws, cl,
                   task, onCloseCalls, events>>

\* message handler, input cases: handleInput re-arms the watchdog when the
\* session is active and has a page, and drops the event otherwise
InputCmd(c) ==
    /\ ws[c] = "open"
    /\ IF sess[c].page # 0 /\ sess[c].isActive
       THEN /\ sess' = [sess EXCEPT ![c] = ResetTimeout(@)]
            /\ last' = Step("input", c)
       ELSE /\ last' = Step("inputDropped", c)
            /\ UNCHANGED sess
    /\ out' = <<>>
    /\ Event
    /\ UNCHANGED <<ext, maxSessions, sessions, allPending, removePending, ws, cl,
                   stopPend, task, engine, onCloseCalls>>

\* ------------------------------------------------------------------------
\* Specification
\* ------------------------------------------------------------------------
Next ==
    \/ \E c \in Conns : Connect(c)
    \/ \E c \in Conns : ApiCreateSession(c)
    \/ \E c \in Conns : WsClose(c)
    \/ \E s \in Conns : RemoveSession(s)
    \/ CleanupAll
    \/ \E s \in Conns : Watchdog(s)
    \/ \E s \in Conns, o \in Origins : CleanupResume(s, o)
    \/ \E c \in Conns, u \in 0..Len(UrlTable) : StartCmd(c, u)
    \/ \E t \in Tasks : InitFail(t)
    \/ \E t \in Tasks : LaunchOk(t)
    \/ \E t \in Tasks : NewPageOk(t)
    \/ \E t \in Tasks : SetViewportOk(t)
    \/ \E t \in Tasks : CreateCDPOk(t)
    \/ \E t \in Tasks : SetDownloadDone(t)
    \/ \E t \in Tasks : GotoOk(t)
    \/ \E t \in Tasks, ok \in BOOLEAN : StartScreencastDone(t, ok)
    \/ \E c \in Conns : StopCmd(c)
    \/ \E s \in Conns : StopResume(s)
    \/ \E c \in Conns : InputCmd(c)

Spec == Init /\ [][Next]_vars

\* connections, commands, timeouts and 3xx responses arriving at the pages,
\* without rejected engine calls and direct calls of the manager
NextRedirect ==
    \/ \E c \in Conns : Connect(c)
    \/ \E c \in Conns : WsClose(c)
    \/ \E s \in Conns : Watchdog(s)
    \/ \E s \in Conns, o \in Origins : CleanupResume(s, o)
    \/ \E c \in Conns, u \in 0..Len(UrlTable) : StartCmd(c, u)
    \/ \E t \in Tasks : LaunchOk(t)
    \/ \E t \in Tasks : NewPageOk(t)
    \/ \E t \in Tasks : SetViewportOk(t)
    \/ \E t \in Tasks : CreateCDPOk(t)
    \/ \E t \in Tasks : SetDownloadDone(t)
    \/ \E t \in Tasks : GotoOk(t)
    \/ \E t \in Tasks : StartScreencastDone(t, TRUE)
    \/ \E h \in Handles : Response3xx(h)
    \/ \E c \in Conns : StopCmd(c)
    \/ \E s \in Conns : StopResume(s)

SpecRedirect == Init /\ [][NextRedirect]_vars

TypeOK ==
    /\ maxSessions \in 1..NumConns
    /\ sessions \subseteq Conns
    /\ \A c \in Conns : ws[c] \in {"idle", "open", "closed", "refused"}

\* ------------------------------------------------------------------------
\* live-analyzer: detectTyposquatting, calculateSimilarity
\* ------------------------------------------------------------------------
\* all strings over an alphabet up to a length
StringsUpTo(alphabet, n) == UNION {[1..k -> alphabet] : k \in 0..n}

\* Object.entries(leetPatterns): the integer-like keys in ascending order
\* first, then the other keys in the order they were written
LeetEntries == <<
    <<"0", "o">>, <<"1", "l">>, <<"3", "e">>, <<"4", "a">>, <<"5", "s">>,
    <<"7", "t">>, <<"8", "b">>,
    <<"o", "0">>, <<"l", "1">>, <<"i", "1">>, <<"e", "3">>, <<"s", "5">>,
    <<"a", "4">>, <<"t", "7">>, <<"b", "8">> >>

\* normalized.replace(new RegExp(key, 'g'), value)
ReplaceAll(h, key, value) ==
    [i \in 1..Len(h) |-> IF h[i] = key THEN value ELSE h[i]]

RECURSIVE ApplyLeet(_, _)
\* the first n turns of the loop over Object.entries(leetPatterns)
ApplyLeet(h, n) ==
    IF n = 0 THEN h
    ELSE ReplaceAll(ApplyLeet(h, n - 1), LeetEntries[n][1], LeetEntries[n][2])

IsLetter(c) == c \in Letters

\* normalizeForComparison(domain)
NormalizeForComparison(domain) ==
    SelectSeq(ApplyLeet(ToLower(domain), Len(LeetEntries)), IsLetter)

\* /\d/.test(original)
HasNumbers(h) == \E i \in 1..Len(h) : h[i] \in Digits

\* detectTyposquatting(original, target)
DetectTyposquatting(original, target) ==
    LET normalizedOriginal == NormalizeForComparison(original)
        normalizedTarget == NormalizeForComparison(target)
    IN [detected |-> HasNumbers(original)
                       /\ normalizedOriginal = normalizedTarget,
        hasNumbers |-> HasNumbers(original),
        normalizedMatch |-> normalizedOriginal = normalizedTarget]

Min3(x, y, z) ==
    IF x <= y /\ x <= z THEN x ELSE IF y <= z THEN y ELSE z

\* a substitution that costs more when it replaces the letter b
EditCostSkewed(x, y) == IF x = y THEN 0 ELSE IF x = "b" THEN 2 ELSE 1

\* const cost = str1[i - 1] === str2[j - 1] ? 0 : 1
EditCost(x, y) == IF x = y THEN 0 ELSE 1

\* row i of the matrix from the row above it (both indexed from 1 for
\* column 0). The inner loop sets matrix[i][j] to the least of
\* matrix[i-1][j] + 1, matrix[i][j-1] + 1 and matrix[i-1][j-1] + cost, with
\* matrix[i][0] = i; unfolding matrix[i][j-1] gives the least of
\* viaAbove[k] + (j - k) over the columns k <= j
MatrixRow(str1, str2, above, i) ==
    LET n == Len(str2) + 1
        viaAbove == SubSeq([c \in 1..n |->
                       IF c = 1 THEN i
                       ELSE Min3(above[c] + 1, above[c] + 1,
                                 above[c - 1]
                                   + EditCost(str1[i], str2[c - 1]))], 1, n)
        Least(S) == CHOOSE x \in S : \A y \in S : x <= y
    IN SubSeq([c \in 1..n |->
                 Least({viaAbove[k] + (c - k) : k \in 1..c})], 1, n)

RECURSIVE MatrixRows(_, _, _)
\* the outer loop over i: row i of the matrix
MatrixRows(str1, str2, i) ==
    IF i = 0 THEN [c \in 1..(Len(str2) + 1) |-> c - 1]
    ELSE MatrixRow(str1, str2, MatrixRows(str1, str2, i - 1), i)

\* matrix[len1][len2] of calculateSimilarity
Distance(str1, str2) == MatrixRows(str1, str2, Len(str1))[Len(str2) + 1]

\* calculateSimilarity(str1, str2): the quotient 1 - distance / maxLen as the
\* fraction num / den
CalculateSimilarity(str1, str2) ==
    LET distance == Distance(str1, str2)
        maxLen == IF Len(str1) >= Len(str2) THEN Len(str1) ELSE Len(str2)
    IN IF maxLen = 0
       THEN [distance |-> distance, num |-> 1, den |-> 1]
       ELSE [distance |-> distance, num |-> maxLen - distance, den |-> maxLen]

\* ------------------------------------------------------------------------
\* live-analyzer: detectRedirect
\* ------------------------------------------------------------------------
\* the first position of one of the characters cs in h, Len(h) + 1 if none
FirstOf(h, cs) ==
    IF \E i \in 1..Len(h) : h[i] \in cs
    THEN CHOOSE i \in 1..Len(h) :
           h[i] \in cs /\ \A j \in 1..(i - 1) : h[j] \notin cs
    ELSE Len(h) + 1

\* h without its leading characters from cs
DropLeading(h, cs) ==
    LET k == IF \E i \in 1..Len(h) : h[i] \notin cs
             THEN CHOOSE i \in 1..Len(h) :
                    h[i] \notin cs /\ \A j \in 1..(i - 1) : h[j] \in cs
             ELSE Len(h) + 1
    IN SubSeq(h, k, Len(h))

\* new URL(raw) without a base, for URLs without credentials: a scheme and a
\* colon are required; behind http: and https: any number of slashes is
\* skipped, the host ends at the port colon or at the path, query or
\* fragment, must not be empty and is lower-cased
ParseURL(raw) ==
    LET p == FirstOf(raw, {":"})
        scheme == ToLower(SubSeq(raw, 1, p - 1))
        rest == SubSeq(raw, p + 1, Len(raw))
        schemeOk == /\ p <= Len(raw)
                    /\ p > 1
                    /\ scheme[1] \in Letters
                    /\ \A i \in 1..Len(scheme) :
                         scheme[i] \in Letters \cup Digits \cup {"+", "-", "."}
        special == scheme \in {Chars("http"), Chars("https")}
        after == IF special THEN DropLeading(rest, {"/", "\\"})
                 ELSE IF StartsWith(rest, Chars("//"))
                 THEN SubSeq(rest, 3, Len(rest))
                 ELSE <<>>
        hostport == SubSeq(after, 1, FirstOf(after, {"/", "?", "#"}) - 1)
        host == SubSeq(hostport, 1, FirstOf(hostport, {":"}) - 1)
    IN IF ~schemeOk \/ (special /\ host = <<>>)
       THEN [ok |-> FALSE, protocol |-> <<>>, hostname |-> <<>>]
       ELSE [ok |-> TRUE, protocol |-> scheme \o <<":">>,
             hostname |-> IF special THEN ToLower(host) ELSE host]

\* normalizeUrl(url) of detectRedirect: its hostname
NormalizeUrl(url) ==
    LET parsed == ParseURL(IF StartsWith(url, Chars("http")) THEN url
                           ELSE Chars("https://") \o url)
    IN IF parsed.ok THEN [hostname |-> ToLower(parsed.hostname)]
       ELSE [hostname |-> url]

\* generateRedirectExplanation: null or a text
GenerateRedirectExplanation(original, current, typosquatting) ==
    IF ~typosquatting.detected /\ original.hostname = current.hostname
    THEN "null" ELSE "text"

\* detectRedirect(originalUrl, currentUrl)
DetectRedirect(originalUrl, currentUrl) ==
    LET original == NormalizeUrl(originalUrl)
        current == NormalizeUrl(currentUrl)
        typosquatting == DetectTyposquatting(original.hostname, current.hostname)
    IN [redirected |-> original.hostname # current.hostname,
        originalDomain |-> original.hostname,
        currentDomain |-> current.hostname,
        typosquatting |-> typosquatting,
        domainSimilarity |->
            CalculateSimilarity(original.hostname, current.hostname),
        explanation |->
            GenerateRedirectExplanation(original, current, typosquatting)]

\* ------------------------------------------------------------------------
\* sandbox-session: download detection and file risk
\* ------------------------------------------------------------------------
EndsWith(h, suffix) ==
    Len(h) >= Len(suffix)
      /\ SubSeq(h, Len(h) - Len(suffix) + 1, Len(h)) = suffix

\* String.prototype.includes
Includes(h, sub) ==
    \E i \in 1..(Len(h) - Len(sub) + 1) : SubSeq(h, i, i + Len(sub) - 1) = sub

\* the last position of the character c in h, 0 if none
LastIndexOf(h, c) ==
    IF \E i \in 1..Len(h) : h[i] = c
    THEN CHOOSE i \in 1..Len(h) :
           h[i] = c /\ \A j \in (i + 1)..Len(h) : h[j] # c
    ELSE 0

\* h.split(c).pop(): what follows the last c, all of h when there is none
SplitPop(h, c) == SubSeq(h, LastIndexOf(h, c) + 1, Len(h))

\* h.split(c)[0]
SplitFirst(h, c) == SubSeq(h, 1, FirstOf(h, {c}) - 1)

DANGEROUS_EXTENSIONS == {Chars(e) : e \in {
    ".exe", ".msi", ".bat", ".cmd", ".com", ".scr", ".pif",
    ".app", ".dmg", ".pkg", ".sh", ".bash", ".zsh", ".jar", ".jnlp",
    ".ps1", ".psm1", ".psd1",
    ".vbs", ".vbe", ".js", ".jse", ".ws", ".wsf", ".wsc",
    ".hta", ".cpl", ".msc", ".dll", ".sys", ".drv", ".iso", ".img"}}

\* DOUBLE_EXTENSION_PATTERN.test(name), case-insensitive
DOUBLE_EXTENSION_PATTERN(name) ==
    \E d \in {"pdf", "doc", "docx", "xls", "xlsx", "jpg", "png", "txt"},
       e \in {"exe", "scr", "bat", "cmd", "js", "vbs"} :
         EndsWith(ToLower(name), <<".">> \o Chars(d) \o <<".">> \o Chars(e))

\* getExpectedContentType(extension): <<>> stands for null
GetExpectedContentType(extension) ==
    CASE extension = Chars(".pdf") -> Chars("application/pdf")
      [] extension = Chars(".doc") -> Chars("application/msword")
      [] extension = Chars(".docx") -> Chars("application/vnd.openxmlformats")
      [] extension = Chars(".xls") -> Chars("application/vnd.ms-excel")
      [] extension = Chars(".xlsx") -> Chars("application/vnd.openxmlformats")
      [] extension = Chars(".jpg") -> Chars("image/jpeg")
      [] extension = Chars(".jpeg") -> Chars("image/jpeg")
      [] extension = Chars(".png") -> Chars("image/png")
      [] extension = Chars(".gif") -> Chars("image/gif")
      [] extension = Chars(".txt") -> Chars("text/plain")
      [] extension = Chars(".zip") -> Chars("application/zip")
      [] OTHER -> <<>>

Unknown == Chars("unknown")

\* analyzeFileRisk(filename, contentType)
AnalyzeFileRisk(filename, contentType) ==
    LET lowerFilename == ToLower(filename)
        extension == <<".">> \o SplitPop(lowerFilename, ".")
        double == DOUBLE_EXTENSION_PATTERN(lowerFilename)
        dangerous == extension \in DANGEROUS_EXTENSIONS
        expectedType == GetExpectedContentType(extension)
        mismatch == /\ contentType # Unknown
                    /\ expectedType # <<>>
                    /\ ~Includes(contentType, expectedType)
        riskScore == 30 + (IF double THEN 50 ELSE 0)
                        + (IF dangerous THEN 30 ELSE 0)
                        + (IF mismatch THEN 20 ELSE 0)
    IN [riskScore |-> IF riskScore < 100 THEN riskScore ELSE 100,
        riskLevel |-> IF riskScore >= 70 THEN "danger"
                      ELSE IF riskScore >= 40 THEN "warning" ELSE "safe",
        threats |-> (IF double THEN <<"double">> ELSE <<>>)
                      \o (IF dangerous THEN <<"executable">> ELSE <<>>)
                      \o (IF mismatch THEN <<"mime">> ELSE <<>>),
        blocked |-> TRUE]

HexDigits == Digits \cup {"a", "b", "c", "d", "e", "f", "A", "B", "C", "D", "E", "F"}

RECURSIVE DecodeURIComponent(_)
\* decodeURIComponent(h): a percent sign that is not followed by two
\* hexadecimal digits raises a URIError; %20, %25 and %2E are decoded, any
\* other escape is kept as "?"
DecodeURIComponent(h) ==
    IF h = <<>> THEN [ok |-> TRUE, text |-> <<>>]
    ELSE IF h[1] # "%"
    THEN LET r == DecodeURIComponent(Tail(h))
         IN [ok |-> r.ok, text |-> <<h[1]>> \o r.text]
    ELSE IF Len(h) < 3 \/ h[2] \notin HexDigits \/ h[3] \notin HexDigits
    THEN [ok |-> FALSE, text |-> <<>>]
    ELSE LET r == DecodeURIComponent(SubSeq(h, 4, Len(h)))
             code == ToLower(SubSeq(h, 2, 3))
             char == CASE code = Chars("20") -> " "
                       [] code = Chars("25") -> "%"
                       [] code = Chars("2e") -> "."
                       [] OTHER -> "?"
         IN [ok |-> r.ok, text |-> <<char>> \o r.text]

Quotes == {"'", "\""}

IsNoQuote(c) == c \notin Quotes

\* contentDisposition.match(/filename[^;=\n]*=((['"]).*?\2|[^;\n]*)/):
\* whether it matches and its first group
FilenameMatch(cd) ==
    LET word == Chars("filename")
        \* a start of "filename" whose next ';', '=' or line end is '='
        Starts == {i \in 1..Len(cd) :
                     /\ i + 7 <= Len(cd)
                     /\ SubSeq(cd, i, i + 7) = word
                     /\ LET tail == SubSeq(cd, i + 8, Len(cd))
                            e == FirstOf(tail, {";", "=", "\n"})
                        IN e <= Len(tail) /\ tail[e] = "="}
    IN IF Starts = {} THEN [found |-> FALSE, group |-> <<>>]
       ELSE LET i == CHOOSE x \in Starts : \A y \in Starts : x <= y
                tail == SubSeq(cd, i + 8, Len(cd))
                v == SubSeq(tail, FirstOf(tail, {"="}) + 1, Len(tail))
                quoted == /\ v # <<>>
                          /\ v[1] \in Quotes
                          /\ \E j \in 2..Len(v) : v[j] = v[1]
            IN [found |-> TRUE,
                group |-> IF quoted
                          THEN SubSeq(v, 1, 1 + FirstOf(Tail(v), {v[1]}))
                          ELSE SubSeq(v, 1, FirstOf(v, {";", "\n"}) - 1)]

\* the last path segment of a URL without its query
UrlFilename(url) == SplitFirst(SplitPop(url, "/"), "?")

\* analyzeDownload(url, contentDisposition, contentType, headers)
AnalyzeDownload(url, contentDisposition, contentType) ==
    LET m == FilenameMatch(contentDisposition)
        filename == IF m.found THEN SelectSeq(m.group, IsNoQuote)
                    ELSE IF UrlFilename(url) # <<>> THEN UrlFilename(url)
                    ELSE Unknown
    IN [thrown |-> FALSE, filename |-> filename, contentType |-> contentType,
        risk |-> AnalyzeFileRisk(filename, contentType)]

\* analyzeDownloadUrl(url); a URIError of decodeURIComponent escapes
AnalyzeDownloadUrl(url) ==
    LET d == DecodeURIComponent(UrlFilename(url))
        filename == IF d.text # <<>> THEN d.text ELSE Unknown
    IN IF ~d.ok
       THEN [thrown |-> TRUE, filename |-> <<>>, contentType |-> Unknown,
             risk |-> [riskScore |-> 0, riskLevel |-> "", threats |-> <<>>,
                       blocked |-> FALSE]]
       ELSE [thrown |-> FALSE, filename |-> filename, contentType |-> Unknown,
             risk |-> AnalyzeFileRisk(filename, Unknown)]

\* isDownloadableContentType(contentType)
IsDownloadableContentType(contentType) ==
    \E t \in {"application/octet-stream", "application/x-msdownload",
              "application/x-executable", "application/x-msdos-program",
              "application/zip", "application/x-rar-compressed",
              "application/x-7z-compressed", "application/x-tar",
              "application/gzip"} : Includes(contentType, Chars(t))

\* isDownloadUrl(url)
IsDownloadUrl(url) ==
    \E e \in DANGEROUS_EXTENSIONS : EndsWith(ToLower(url), e)

\* the page.on('response') handler of setupDownloadBlocking: whether a
\* download_blocked event is sent, and its file information
OnResponseDownload(url, contentDisposition, contentType) ==
    IF Includes(contentDisposition, Chars("attachment"))
         \/ IsDownloadableContentType(contentType)
    THEN [sent |-> TRUE,
          info |-> AnalyzeDownload(url, contentDisposition, contentType)]
    ELSE [sent |-> FALSE, info |-> AnalyzeDownload(<<>>, <<>>, Unknown)]

\* the page.on('request') handler of setupDownloadBlocking
OnRequestDownload(url) ==
    IF IsDownloadUrl(url)
    THEN LET info == AnalyzeDownloadUrl(url)
         IN [sent |-> ~info.thrown, info |-> info]
    ELSE [sent |-> FALSE, info |-> AnalyzeDownload(<<>>, <<>>, Unknown)]

\* ------------------------------------------------------------------------
\* Specification of the functions: each behaviour is one call with arguments
\* from the sets below
\* ------------------------------------------------------------------------
\* hostnames handed to detectTyposquatting, none empty
Hosts == (StringsUpTo({"a", "4", "e", "x"}, MaxHostLen) \ {<<>>})
           \cup {Chars("amaz0n.com"), Chars("amazon.com"), Chars("p4y.co"),
                 Chars("pey.co"), Chars("pay.co")}

\* strings handed to calculateSimilarity
SimStrings == StringsUpTo({"a", "b"}, MaxStrLen)

\* URLs handed to detectRedirect
RedirectUrls == {Chars(u) : u \in {
    "https://amaz0n.com", "https://amazon.com", "amazon.com",
    "https://AMAZON.com/login", "httpd.io/x", "https://httpd.io/x",
    "HTTPS://x.com", "https://x.com/"}}

Filenames == {Chars(f) : f \in {
    "report.pdf", "invoice.pdf.exe", "INVOICE.PDF.EXE", "setup.exe", "exe",
    "notes.txt", "photo.jpg.scr", "a.zip", "README", ""}}

ContentTypes == {Chars(t) : t \in {
    "unknown", "", "application/pdf", "application/octet-stream",
    "text/plain; charset=utf-8"}}

ContentDispositions == {Chars(d) : d \in {
    "", "inline", "attachment", "attachment; filename=report.pdf",
    "attachment; filename=\"invoice.pdf.exe\"; size=1"}}

ResponseUrls == {Chars(u) : u \in {
    "https://x.com/files/invoice.pdf.exe", "https://x.com/dl?id=1",
    "https://x.com/app", "https://x.com/"}}

RequestUrls == {Chars(u) : u \in {
    "https://x.com/files/invoice.pdf.exe", "https://x.com/100%.pdf.exe",
    "https://x.com/a%20b.pdf.exe", "https://x.com/invoice.pdf.exe?token=1",
    "https://x.com/setup.exe", "https://x.com/report.pdf",
    "https://x.com/page"}}

PureCall(fn, a, b, c) ==
    [fn |-> fn, a |-> a, b |-> b, c |-> c, done |-> FALSE, res |-> 0]

PureCalls ==
    {PureCall("detectTyposquatting", a, b, <<>>) : a \in Hosts, b \in Hosts}
      \cup {PureCall("calculateSimilarity", a, b, <<>>) :
              a \in SimStrings, b \in SimStrings}
      \cup {PureCall("detectRedirect", a, b, <<>>) :
              a \in RedirectUrls, b \in RedirectUrls}
      \cup {PureCall("analyzeFileRisk", a, b, <<>>) :
              a \in Filenames, b \in ContentTypes}
      \cup {PureCall("onResponse", a, b, c) :
              a \in ResponseUrls, b \in ContentDispositions,
              c \in ContentTypes}
      \cup {PureCall("onRequest", a, <<>>, <<>>) : a \in RequestUrls}

InitPure ==
    /\ InitSessions
    /\ analysis = [a \in Analyses |-> AnIdle]
    /\ req = [r \in Reqs |-> ReqIdle]
    /\ proc = ProcRunning
    /\ call \in PureCalls
    /\ ClockIdle

\* the call returns res
Return(res) ==
    /\ call' = [call EXCEPT !.done = TRUE, !.res = res]
    /\ UNCHANGED <<core, analysis, req, proc, clock>>

DetectTyposquattingCall ==
    /\ call.fn = "detectTyposquatting"
    /\ ~call.done
    /\ Return(DetectTyposquatting(call.a, call.b))

CalculateSimilarityCall ==
    /\ call.fn = "calculateSimilarity"
    /\ ~call.done
    /\ Return(CalculateSimilarity(call.a, call.b))

DetectRedirectCall ==
    /\ call.fn = "detectRedirect"
    /\ ~call.done
    /\ Return(DetectRedirect(call.a, call.b))

AnalyzeFileRiskCall ==
    /\ call.fn = "analyzeFileRisk"
    /\ ~call.done
    /\ Return(AnalyzeFileRisk(call.a, call.b))

\* a response arrives at the page
OnResponseCall ==
    /\ call.fn = "onResponse"
    /\ ~call.done
    /\ Return(OnResponseDownload(call.a, call.b, call.c))

\* the page issues a request
OnRequestCall ==
    /\ call.fn = "onRequest"
    /\ ~call.done
    /\ Return(OnRequestDownload(call.a))

NextPure ==
    \/ DetectTyposquattingCall
    \/ CalculateSimilarityCall
    \/ DetectRedirectCall
    \/ AnalyzeFileRiskCall
    \/ OnResponseCall
    \/ OnRequestCall

SpecPure == InitPure /\ [][NextPure]_vars

\* the call of fn has returned
Returned(fn) == call.fn = fn /\ call.done

\* ------------------------------------------------------------------------
\* live-analyzer: analyzeWithAIMultimodal, analyzeInBackground
\* ------------------------------------------------------------------------
\* how the request to the AI engine can go: the abort timer fires, the
\* transport fails, the engine answers non-OK, with a body that is no JSON,
\* with empty content, with content that parseAIResponse cannot parse, or
\* with a verdict; "noFetch" when no request is made
AiFailures == {"abort", "network", "nonOk", "badJson", "empty"}

AiOutcomes == AiFailures \cup {"unparsable", "verdict", "noFetch"}

Degraded == [thrown |-> FALSE, enabled |-> FALSE, riskScore |-> 50,
             riskLevel |-> "warning"]

\* analyzeWithAIMultimodal with a catch block that handles the abort only
AnalyzeWithAIMultimodalRethrows(apiKey, outcome) ==
    IF ~apiKey THEN Degraded
    ELSE IF outcome = "abort" THEN Degraded
    ELSE IF outcome \in AiFailures THEN [Degraded EXCEPT !.thrown = TRUE]
    ELSE IF outcome = "unparsable"
    THEN [Degraded EXCEPT !.enabled = TRUE]
    ELSE [thrown |-> FALSE, enabled |-> TRUE, riskScore |-> 85,
          riskLevel |-> "danger"]

\* analyzeWithAIMultimodal(data, redirectInfo): without a key the degraded
\* verdict at once; every error raised in the try block (AbortError, a
\* rejected fetch, the errors thrown for a non-OK answer and for empty
\* content, a body that is no JSON) ends in the catch block, which returns
\* the degraded verdict; parseAIResponse returns its defaults (50, warning)
\* for content it cannot parse and the engine's values otherwise
AnalyzeWithAIMultimodal(apiKey, outcome) ==
    IF ~apiKey THEN Degraded
    ELSE IF outcome \in AiFailures THEN Degraded
    ELSE IF outcome = "unparsable"
    THEN [Degraded EXCEPT !.enabled = TRUE]
    ELSE [thrown |-> FALSE, enabled |-> TRUE, riskScore |-> 85,
          riskLevel |-> "danger"]

\* an event of an analysis as sess.send receives it: it holds the analysisId
\* and no sessionId
AnalysisMsg(c, a, type, stage) ==
    [to |-> c, type |-> type, state |-> stage, sid |-> 0, aid |-> a]

\* sendFrame(data)
FrameMsg(c) == [to |-> c, type |-> "frame", state |-> "", sid |-> 0]

\* sendUrlChange(url)
UrlChangeMsg(c) == [to |-> c, type |-> "urlChange", state |-> "", sid |-> c]

\* the 'reanalyze' event of triggerReanalysis
ReanalyzeMsg(c) == [to |-> c, type |-> "reanalyze", state |-> "", sid |-> c]

\* the 'download_blocked' event of setupDownloadBlocking
DownloadBlockedMsg(c, riskLevel) ==
    [to |-> c, type |-> "download_blocked", state |-> riskLevel, sid |-> 0]

\* what the steps of an analysis leave alone
quiet == <<req, call, proc, clock, maxSessions, sessions, allPending, removePending,
           ws, cl, stopPend, task, engine, onCloseCalls>>

FreeAnalysis == {a \in Analyses : analysis[a].pc = "unused"}

\* analyzeInBackground from its call to `await collectAnalysisData`: the
\* events analysis_started and analysis_progress (collecting), as the call a
\* for the session with fields st, whose page is at pageUrl
AnalysisCall(c, st, a, pageUrl) ==
    [an |-> [AnIdle EXCEPT !.pc = "collecting", !.s = c, !.h = st.page,
                           !.url = pageUrl, !.orig = st.originalUrl,
                           !.sent = <<"analysis_started", "analysis_progress">>],
     msgs |-> <<AnalysisMsg(c, a, "analysis_started", ""),
                AnalysisMsg(c, a, "analysis_progress", "collecting")>>]

\* case 'start' after `await session.startScreencast()`: the analysis of the
\* initial load is started when the session has a page and is active
StartAnalysis(c) ==
    /\ last.s = c
    /\ \/ last.op \in {"screencastOk", "screencastFail"}
       \/ last.op = "gotoOk" /\ sess[c].cdpClient = 0
    /\ sess[c].page # 0 /\ sess[c].isActive
    /\ FreeAnalysis # {}
    /\ LET a == CHOOSE x \in FreeAnalysis : \A y \in FreeAnalysis : x <= y
           r == AnalysisCall(c, sess[c], a, engine[sess[c].page].url)
       IN /\ analysis' = [analysis EXCEPT ![a] = r.an]
          /\ out' = Send(c, r.msgs)
    /\ last' = Step("startAnalysis", c)
    /\ UNCHANGED <<quiet, sess, events>>

\* the main frame of the page of browser h navigates to u, which is not the
\* session's currentUrl; the framenavigated handler: currentUrl, the
\* urlChange event, triggerReanalysis with its reanalyze event, and the
\* onNavigation callback, which calls analyzeInBackground when the session
\* has a page and is active
Navigate(h, u) ==
    LET c == engine[h].owner IN
    /\ c # 0
    /\ engine[h].nav
    /\ engine[h].hooks > 0
    /\ ~engine[h].closed
    /\ sess[c].page = h
    /\ u # sess[c].currentUrl
    /\ FreeAnalysis # {}
    /\ Event
    /\ LET st == [sess[c] EXCEPT !.currentUrl = u]
           a == CHOOSE x \in FreeAnalysis : \A y \in FreeAnalysis : x <= y
           r == AnalysisCall(c, st, a, u)
       IN /\ sess' = [sess EXCEPT ![c] = st]
          /\ engine' = [engine EXCEPT ![h].url = u]
          /\ IF st.isActive
             THEN /\ analysis' = [analysis EXCEPT ![a] = r.an]
                  /\ out' = Send(c, <<UrlChangeMsg(c), ReanalyzeMsg(c)>>
                                      \o r.msgs)
             ELSE /\ out' = Send(c, <<UrlChangeMsg(c), ReanalyzeMsg(c)>>)
                  /\ UNCHANGED analysis
    /\ last' = Step("navigate", c)
    /\ UNCHANGED <<req, call, proc, clock, maxSessions, sessions, allPending,
                   removePending, ws, cl, stopPend, task, onCloseCalls>>

\* collectAnalysisData(page) when the engine calls of the collectors in
\* `failed` reject: captureScreenshot returns null, getFormInfo and
\* getScriptInfo return [] after catching the error; page.content() is
\* awaited in Promise.all as it is, so its rejection rejects the call
CollectAnalysisData(failed) ==
    [rejected |-> "html" \in failed,
     data |-> [c \in Collectors |->
                 IF c \notin failed THEN "full"
                 ELSE IF c = "screenshot" THEN "null"
                 ELSE IF c = "html" THEN "none"
                 ELSE "empty"]]

\* collectAnalysisData resolved with every collector's data and with the
\* URL the page has now: getMetaInfo is called
CollectOk(a) ==
    /\ analysis[a].pc = "collecting"
    /\ ~engine[analysis[a].h].closed
    /\ analysis' = [analysis EXCEPT ![a].pc = "meta",
                                    ![a].data = CollectAnalysisData({}).data,
                                    ![a].dataUrl = engine[analysis[a].h].url]
    /\ out' = <<>>
    /\ last' = Step("collectOk", analysis[a].s)
    /\ UNCHANGED <<quiet, sess, events>>

\* collectAnalysisData rejected (page.content() on a closed or crashed
\* page): the catch block builds the analysis_error event from `url`, which
\* is not declared in analyzeInBackground; the ReferenceError leaves the
\* catch block before sendMessage is called and rejects the call
CollectFail(a) ==
    /\ analysis[a].pc = "collecting"
    /\ IF engine[analysis[a].h].closeCalls > 0 THEN UNCHANGED events ELSE Event
    /\ analysis' = [analysis EXCEPT ![a].pc = "rejected"]
    /\ out' = <<>>
    /\ last' = Step("collectFail", analysis[a].s)
    /\ UNCHANGED <<quiet, sess>>

\* collectAnalysisData settled after the engine calls of the collectors in
\* `failed` were rejected: it resolved with the data that is left and
\* getMetaInfo is called, or it rejected and the catch block of
\* analyzeInBackground ran into its ReferenceError
Collected(a, failed) ==
    LET r == CollectAnalysisData(failed) IN
    /\ analysis[a].pc = "collecting"
    /\ failed = {} => ~engine[analysis[a].h].closed
    /\ IF failed = {} THEN UNCHANGED events ELSE Event
    /\ analysis' = [analysis EXCEPT
                      ![a].pc = IF r.rejected THEN "rejected" ELSE "meta",
                      ![a].failed = failed,
                      ![a].data = IF r.rejected THEN @ ELSE r.data,
                      ![a].dataUrl = IF r.rejected THEN @
                                     ELSE engine[analysis[a].h].url]
    /\ out' = <<>>
    /\ last' = Step(IF r.rejected THEN "collectFail" ELSE "collectOk",
                    analysis[a].s)
    /\ UNCHANGED <<quiet, sess>>

\* getMetaInfo returned (it catches its errors): the events
\* analysis_progress (collected) and analysis_progress (analyzing), then
\* analyzeWithAIMultimodal is called
MetaDone(a) ==
    LET c == analysis[a].s IN
    /\ analysis[a].pc = "meta"
    /\ analysis' = [analysis EXCEPT
                      ![a].pc = "ai",
                      ![a].sent = @ \o <<"analysis_progress",
                                         "analysis_progress">>]
    /\ out' = Send(c, <<AnalysisMsg(c, a, "analysis_progress", "collected"),
                        AnalysisMsg(c, a, "analysis_progress", "analyzing")>>)
    /\ last' = Step("metaDone", c)
    /\ UNCHANGED <<quiet, sess, events>>

\* analyzeWithAIMultimodal settled: analysis_complete with the verdict; an
\* error it let through would reach the catch block of analyzeInBackground
AiDone(a, outcome) ==
    LET c == analysis[a].s
        v == AnalyzeWithAIMultimodal(proc.apiKey, outcome)
    IN /\ analysis[a].pc = "ai"
       /\ (outcome = "noFetch") <=> ~proc.apiKey
       /\ IF outcome \in AiFailures THEN Event ELSE UNCHANGED events
       /\ IF v.thrown
          THEN /\ analysis' = [analysis EXCEPT ![a].pc = "rejected",
                                               ![a].ai = outcome,
                                               ![a].verdict = v]
               /\ out' = <<>>
          ELSE /\ analysis' = [analysis EXCEPT
                                 ![a].pc = "complete",
                                 ![a].ai = outcome,
                                 ![a].verdict = v,
                                 ![a].sent = @ \o <<"analysis_complete">>]
               /\ out' = Send(c, <<[AnalysisMsg(c, a, "analysis_complete",
                                                v.riskLevel)
                                      EXCEPT !.state = v.riskLevel]>>)
       /\ last' = Step("aiDone", c)
       /\ UNCHANGED <<quiet, sess>>

\* the messages and acknowledgements of the Page.screencastFrame handlers
\* registered on the client of browser h for one frame event: each handler
\* calls sendFrame and then this.cdpClient.send('Page.screencastFrameAck'),
\* which reaches the client the session holds now and raises a TypeError,
\* caught and ignored, when it holds none
FrameHandlers(h) ==
    LET c == engine[h].owner
        n == engine[h].frameHandlers
    IN [msgs |-> [i \in 1..n |-> FrameMsg(c)],
        to |-> sess[c].cdpClient,
        acks |-> IF sess[c].cdpClient = 0 THEN 0 ELSE n]

\* a frame handler that would wait for the analyses of its session
ScreencastFrameAfterAnalysis(h) ==
    LET c == engine[h].owner
        r == FrameHandlers(h)
    IN /\ c # 0
       /\ ~engine[h].closed
       /\ engine[h].casting
       /\ engine[h].frameHandlers > 0
       /\ \A a \in Analyses :
             analysis[a].s = c => analysis[a].pc \notin {"collecting", "meta", "ai"}
       /\ out' = Send(c, r.msgs)
       /\ last' = [Step("frame", c) EXCEPT !.h = h, !.ackTo = r.to,
                                           !.acks = r.acks]
       /\ Event
       /\ UNCHANGED <<quiet, sess, analysis>>

\* the client of browser h emits a Page.screencastFrame event while its
\* screencast runs
ScreencastFrame(h) ==
    LET c == engine[h].owner
        r == FrameHandlers(h)
    IN /\ c # 0
       /\ ~engine[h].closed
       /\ engine[h].casting
       /\ engine[h].frameHandlers > 0
       /\ out' = Send(c, r.msgs)
       /\ last' = [Step("frame", c) EXCEPT !.h = h, !.ackTo = r.to,
                                           !.acks = r.acks]
       /\ Event
       /\ UNCHANGED <<quiet, sess, analysis>>

\* the handlers of setupDownloadBlocking are registered on the page
DownloadHooks(h) ==
    /\ engine[h].owner # 0
    /\ engine[h].hooks > 0
    /\ engine[h].nav
    /\ ~engine[h].closed

\* a response arrives at the page of browser h
DownloadResponse(h, url, contentDisposition, contentType) ==
    LET c == engine[h].owner
        r == OnResponseDownload(url, contentDisposition, contentType)
    IN /\ DownloadHooks(h)
       /\ Event
       /\ out' = IF r.sent
                 THEN Send(c, <<DownloadBlockedMsg(c, r.info.risk.riskLevel)>>)
                 ELSE <<>>
       /\ last' = Step("response", c)
       /\ UNCHANGED <<quiet, sess, analysis>>

\* the page of browser h issues a request
DownloadRequest(h, url) ==
    LET c == engine[h].owner
        r == OnRequestDownload(url)
    IN /\ DownloadHooks(h)
       /\ Event
       /\ out' = IF r.sent
                 THEN Send(c, <<DownloadBlockedMsg(c, r.info.risk.riskLevel)>>)
                 ELSE <<>>
       /\ last' = Step("request", c)
       /\ UNCHANGED <<quiet, sess, analysis>>

\* a server started with or without OPENROUTER_API_KEY
InitStream ==
    /\ InitSessions
    /\ analysis = [a \in Analyses |-> AnIdle]
    /\ req = [r \in Reqs |-> ReqIdle]
    /\ call = CallNone
    /\ proc \in {[ProcRunning EXCEPT !.apiKey = k] : k \in BOOLEAN}
    /\ ClockIdle

\* the responses and requests the pages of the streaming sessions meet
StreamResponses == {
    <<Chars("https://x.com/dl?id=1"),
      Chars("attachment; filename=\"invoice.pdf.exe\"; size=1"),
      Chars("application/octet-stream")>>,
    <<Chars("https://x.com/"), Chars(""), Chars("text/plain; charset=utf-8")>>}

\* the connections that are used for streaming
StreamConns == {1}

StreamRequests == {Chars("https://x.com/setup.exe"), Chars("https://x.com/page")}

\* sessions that are started, stream frames, navigate, meet downloads and
\* are analysed, until the socket closes
NextStream ==
    \/ \E c \in StreamConns : Connect(c)
    \/ \E c \in StreamConns : WsClose(c)
    \/ \E s \in StreamConns, o \in Origins : CleanupResume(s, o)
    \/ \E c \in StreamConns, u \in 0..Len(UrlTable) : StartCmd(c, u)
    \/ \E t \in Tasks : LaunchOk(t)
    \/ \E t \in Tasks : NewPageOk(t)
    \/ \E t \in Tasks : SetViewportOk(t)
    \/ \E t \in Tasks : CreateCDPOk(t)
    \/ \E t \in Tasks : SetDownloadDone(t)
    \/ \E t \in Tasks : GotoOk(t)
    \/ \E t \in Tasks, ok \in BOOLEAN : StartScreencastDone(t, ok)
    \/ \E c \in StreamConns : StartAnalysis(c)
    \/ \E h \in Handles, u \in 1..Len(UrlTable) : Navigate(h, u)
    \/ \E a \in Analyses : CollectOk(a)
    \/ \E a \in Analyses : CollectFail(a)
    \/ \E a \in Analyses : MetaDone(a)
    \/ \E a \in Analyses, o \in AiOutcomes : AiDone(a, o)
    \/ \E h \in Handles : ScreencastFrame(h)
    \/ \E h \in Handles, r \in StreamResponses :
          DownloadResponse(h, r[1], r[2], r[3])
    \/ \E h \in Handles, url \in StreamRequests : DownloadRequest(h, url)

SpecStream == InitStream /\ [][NextStream]_vars

\* ------------------------------------------------------------------------
\* WebSocket analysis server: handleAnalyzeRequest
\* ------------------------------------------------------------------------
\* isValidUrl(url)
IsValidUrl(u) == u.parses /\ u.protocol \in {"http:", "https:"}

\* sendMessage(data): delivered only while the socket is open
Deliver(rq, msgs) == IF rq.open THEN rq.sent \o msgs ELSE rq.sent

\* a catch block of handleAnalyzeRequest that sends nothing
CatchMsgsSilent == <<>>

\* the catch block of handleAnalyzeRequest sends analysis_error
CatchMsgs == <<"analysis_error">>

\* the finally block: browser.close() is awaited when a browser exists
Finally(rq) == [rq EXCEPT !.pc = IF rq.launched THEN "close" ELSE "done"]

\* what the steps of a request leave alone
reqQuiet == <<maxSessions, sessions, allPending, removePending, ws, sess, cl,
              stopPend, task, engine, onCloseCalls, last, out, analysis, call,
              proc, clock>>

\* handleMessage, case 'analyze', up to `await puppeteer.launch`; u = 0
\* stands for a missing url
AnalyzeCmd(r, u) ==
    /\ req[r].pc = "unused"
    /\ \A x \in Reqs : x < r => req[x].pc # "unused"
    /\ req' = [req EXCEPT ![r] =
                 IF u = 0 \/ ~IsValidUrl(UrlTable[u])
                 THEN [@ EXCEPT !.pc = "done", !.url = u,
                                !.sent = Deliver(req[r], <<"error">>)]
                 ELSE [@ EXCEPT !.pc = "launch", !.url = u,
                                !.sent = Deliver(req[r], <<"analysis_progress">>)]]
    /\ UNCHANGED <<reqQuiet, events>>

\* puppeteer.launch resolved
ReqLaunchOk(r) ==
    /\ req[r].pc = "launch"
    /\ req' = [req EXCEPT ![r].pc = "newPage", ![r].launched = TRUE]
    /\ UNCHANGED <<reqQuiet, events>>

\* browser.newPage resolved
ReqNewPageOk(r) ==
    /\ req[r].pc = "newPage"
    /\ req' = [req EXCEPT ![r].pc = "setUserAgent"]
    /\ UNCHANGED <<reqQuiet, events>>

\* page.setUserAgent resolved
ReqSetUserAgentOk(r) ==
    /\ req[r].pc = "setUserAgent"
    /\ req' = [req EXCEPT ![r].pc = "setViewport"]
    /\ UNCHANGED <<reqQuiet, events>>

\* page.setViewport resolved: progress 'navigating', page.goto
ReqSetViewportOk(r) ==
    /\ req[r].pc = "setViewport"
    /\ req' = [req EXCEPT ![r].pc = "goto",
                          ![r].sent = Deliver(req[r], <<"analysis_progress">>)]
    /\ UNCHANGED <<reqQuiet, events>>

\* launch, newPage, setUserAgent or setViewport rejected: catch, finally
ReqFail(r) ==
    /\ req[r].pc \in {"launch", "newPage", "setUserAgent", "setViewport"}
    /\ req' = [req EXCEPT ![r] =
                 Finally([@ EXCEPT !.sent = Deliver(req[r], CatchMsgs)])]
    /\ Event
    /\ UNCHANGED reqQuiet

\* page.goto settled (a rejection gives progress 'navigation_warning'), then
\* analyzeInBackground up to `await collectAnalysisData`
ReqGotoDone(r, ok) ==
    /\ req[r].pc = "goto"
    /\ IF ok THEN UNCHANGED events ELSE Event
    /\ req' = [req EXCEPT ![r].pc = "collect",
                          ![r].sent = Deliver(req[r],
                              (IF ok THEN <<>> ELSE <<"analysis_progress">>)
                                \o <<"analysis_started", "analysis_progress">>)]
    /\ UNCHANGED reqQuiet

\* collectAnalysisData resolved: getMetaInfo is called
ReqCollectOk(r) ==
    /\ req[r].pc = "collect"
    /\ req' = [req EXCEPT ![r].pc = "meta"]
    /\ UNCHANGED <<reqQuiet, events>>

\* collectAnalysisData rejected: the catch block of analyzeInBackground
\* raises the ReferenceError before it sends, the call rejects, and the
\* catch and finally blocks of handleAnalyzeRequest run
ReqCollectFail(r) ==
    /\ req[r].pc = "collect"
    /\ req' = [req EXCEPT ![r] =
                 Finally([@ EXCEPT !.sent = Deliver(req[r], CatchMsgs)])]
    /\ Event
    /\ UNCHANGED reqQuiet

\* getMetaInfo returned: progress 'collected' and 'analyzing', then
\* analyzeWithAIMultimodal is called
ReqMetaDone(r) ==
    /\ req[r].pc = "meta"
    /\ req' = [req EXCEPT ![r].pc = "ai",
                          ![r].sent = Deliver(req[r],
                              <<"analysis_progress", "analysis_progress">>)]
    /\ UNCHANGED <<reqQuiet, events>>

\* analyzeWithAIMultimodal settled: analysis_complete, analyzeInBackground
\* returns and the finally block runs; an error it let through would pass
\* through both catch blocks
ReqAiDone(r, outcome) ==
    LET v == AnalyzeWithAIMultimodal(proc.apiKey, outcome) IN
    /\ req[r].pc = "ai"
    /\ (outcome = "noFetch") <=> ~proc.apiKey
    /\ IF outcome \in AiFailures THEN Event ELSE UNCHANGED events
    /\ req' = [req EXCEPT ![r] =
                 Finally([@ EXCEPT !.sent =
                            Deliver(req[r], IF v.thrown THEN CatchMsgs
                                       ELSE <<"analysis_complete">>)])]
    /\ UNCHANGED reqQuiet

\* browser.close() of the finally block settled; its rejection leaves
\* handleAnalyzeRequest and the message handler answers with 'error'
ReqCloseDone(r, ok) ==
    /\ req[r].pc = "close"
    /\ IF ok THEN UNCHANGED events ELSE Event
    /\ req' = [req EXCEPT ![r].pc = "done",
                          ![r].sent = Deliver(req[r],
                              IF ok THEN <<>> ELSE <<"error">>)]
    /\ UNCHANGED reqQuiet

\* the client's socket closes while its request is handled
ReqSocketClose(r) ==
    /\ req[r].pc \notin {"unused", "done"}
    /\ req[r].open
    /\ req' = [req EXCEPT ![r].open = FALSE]
    /\ Event
    /\ UNCHANGED reqQuiet

NextAnalyze ==
    \/ \E r \in Reqs, u \in 0..Len(UrlTable) : AnalyzeCmd(r, u)
    \/ \E r \in Reqs : ReqLaunchOk(r)
    \/ \E r \in Reqs : ReqNewPageOk(r)
    \/ \E r \in Reqs : ReqSetUserAgentOk(r)
    \/ \E r \in Reqs : ReqSetViewportOk(r)
    \/ \E r \in Reqs : ReqFail(r)
    \/ \E r \in Reqs, ok \in BOOLEAN : ReqGotoDone(r, ok)
    \/ \E r \in Reqs : ReqCollectOk(r)
    \/ \E r \in Reqs : ReqCollectFail(r)
    \/ \E r \in Reqs : ReqMetaDone(r)
    \/ \E r \in Reqs, o \in AiOutcomes : ReqAiDone(r, o)
    \/ \E r \in Reqs, ok \in BOOLEAN : ReqCloseDone(r, ok)
    \/ \E r \in Reqs : ReqSocketClose(r)

\* the analysis server, started with or without OPENROUTER_API_KEY
SpecAnalyze == InitStream /\ [][NextAnalyze]_vars

\* ------------------------------------------------------------------------
\* sandbox-server: gracefulShutdown
\* ------------------------------------------------------------------------
\* SIGINT or SIGTERM: gracefulShutdown up to `await cleanupAll()`
Shutdown ==
    /\ proc.pc = "running"
    /\ CleanupAllCall
    /\ proc' = [proc EXCEPT !.pc = "cleaning"]
    /\ UNCHANGED <<analysis, req, call, clock, maxSessions, removePending, ws,
                   stopPend, task, events>>

\* a suspended cleanup() continues, unless it awaits the close() of a
\* browser that never settles
SettledCleanupResume(s, o) ==
    /\ cl[s][o].pc = "browserClose" => cl[s][o].h \notin proc.hung
    /\ CleanupResume(s, o)

\* cleanupAll() returned: server.close(callback), then the forced exit timer
\* is armed
CleanupAllReturned ==
    /\ proc.pc = "cleaning"
    /\ ~allPending
    /\ proc' = [proc EXCEPT !.pc = "closing", !.timer = TRUE]
    /\ UNCHANGED <<core, analysis, req, call, clock>>

\* the callback of server.close runs once no connection is left:
\* process.exit(0)
ServerClosed ==
    /\ proc.pc = "closing"
    /\ \A c \in Conns : ws[c] # "open"
    /\ proc' = [proc EXCEPT !.pc = "exited", !.code = 0, !.timer = FALSE]
    /\ UNCHANGED <<core, analysis, req, call, clock>>

\* the forced exit timer fires: process.exit(1)
ForcedExit ==
    /\ proc.timer
    /\ proc' = [proc EXCEPT !.pc = "exited", !.code = 1, !.timer = FALSE]
    /\ UNCHANGED <<core, analysis, req, call, clock>>

\* a server on which the close() of some browsers will never settle
InitShutdown ==
    /\ InitSessions
    /\ analysis = [a \in Analyses |-> AnIdle]
    /\ req = [r \in Reqs |-> ReqIdle]
    /\ call = CallNone
    /\ proc \in {[ProcRunning EXCEPT !.hung = H] : H \in SUBSET Handles}
    /\ ClockIdle

\* process.exit ends every handler: they run only while the process lives
Live(S) == IF proc.pc = "exited" THEN {} ELSE S

\* sessions are started and closed until a signal arrives
NextShutdown ==
    \/ \E c \in Live(Conns) : Connect(c)
    \/ \E c \in Live(Conns) : WsClose(c)
    \/ \E c \in Live(Conns), u \in 0..Len(UrlTable) : StartCmd(c, u)
    \/ \E t \in Live(Tasks) : LaunchOk(t)
    \/ \E t \in Live(Tasks) : NewPageOk(t)
    \/ \E t \in Live(Tasks) : SetViewportOk(t)
    \/ \E t \in Live(Tasks) : CreateCDPOk(t)
    \/ \E t \in Live(Tasks) : SetDownloadDone(t)
    \/ \E t \in Live(Tasks) : GotoOk(t)
    \/ \E t \in Live(Tasks) : StartScreencastDone(t, TRUE)
    \/ \E s \in Live(Conns), o \in Origins : SettledCleanupResume(s, o)
    \/ Shutdown
    \/ CleanupAllReturned
    \/ ServerClosed
    \/ ForcedExit

SpecShutdown == InitShutdown /\ [][NextShutdown]_vars

\* ------------------------------------------------------------------------
\* one connection that sends 'start' more than once
\* ------------------------------------------------------------------------
\* the connection that restarts
RestartConns == {1}

\* the 'start' commands it may send, and the browsers they may launch
Restarts == 1..MaxRestarts

\* the server before the connection arrives
InitRestart ==
    /\ maxSessions = 1
    /\ sessions = {}
    /\ allPending = FALSE
    /\ removePending = {}
    /\ ws = [c \in Conns |-> "idle"]
    /\ sess = [c \in Conns |-> SessNew]
    /\ cl = [c \in Conns |-> [o \in Origins |-> ClIdle]]
    /\ stopPend = [c \in Conns |-> 0]
    /\ task = [t \in Restarts |-> TaskIdle]
    /\ engine = [h \in Restarts |-> EngineNew]
    /\ onCloseCalls = [c \in Conns |-> 0]
    /\ events = MaxEvents
    /\ last = Step("init", 0)
    /\ out = <<>>
    /\ ExtIdle

\* 'start', 'stop' and 'start' again on one connection, rejected engine
\* calls of initialize, frames of the screencasts, and the end of the
\* session by a closed socket or the watchdog
NextRestart ==
    \/ \E c \in RestartConns : Connect(c)
    \/ \E c \in RestartConns : WsClose(c)
    \/ \E s \in RestartConns : Watchdog(s)
    \/ \E s \in RestartConns, o \in Origins : CleanupResume(s, o)
    \/ \E c \in RestartConns : StartCmd(c, 1)
    \/ \E t \in Restarts : InitFail(t)
    \/ \E t \in Restarts : LaunchOk(t)
    \/ \E t \in Restarts : NewPageOk(t)
    \/ \E t \in Restarts : SetViewportOk(t)
    \/ \E t \in Restarts : CreateCDPOk(t)
    \/ \E t \in Restarts : SetDownloadDone(t)
    \/ \E t \in Restarts : GotoOk(t)
    \/ \E t \in Restarts, ok \in BOOLEAN : StartScreencastDone(t, ok)
    \/ \E c \in RestartConns : StopCmd(c)
    \/ \E s \in RestartConns : StopResume(s)
    \/ \E h \in Restarts : ScreencastFrame(h)

SpecRestart == InitRestart /\ [][NextRestart]_vars

\* ------------------------------------------------------------------------
\* input events and the watchdog in time
\* ------------------------------------------------------------------------
\* the message types the connection handler hands to handleInput
InputKinds == {"mousemove", "click", "keydown", "keyup", "keypress", "scroll"}

\* an input event that handleInput does not know
UnknownKinds == {"wheel"}

Dropped(st) == [st |-> st, accepted |-> FALSE, calls |-> <<>>]

\* handleInput that accepts an event without calling resetTimeout
HandleInputKeepsTimer(st, kind) ==
    IF st.page = 0 \/ ~st.isActive THEN Dropped(st)
    ELSE [st |-> st, accepted |-> TRUE,
          calls |-> IF kind \in InputKinds THEN <<kind>> ELSE <<>>]

\* handleInput(message) up to its await: the event is dropped without a page
\* or when the session is not active; otherwise resetTimeout, then the
\* handler of its kind calls the automation engine, and an unknown kind is
\* logged
HandleInput(st, kind) ==
    IF st.page = 0 \/ ~st.isActive THEN Dropped(st)
    ELSE [st |-> ResetTimeout(st), accepted |-> TRUE,
          calls |-> IF kind \in InputKinds THEN <<kind>> ELSE <<>>]

\* the handlers of the input kinds without their catch blocks
InputSettleUncaught(st, kind, ok) == [calls |-> <<>>, thrown |-> ~ok]

\* the awaited engine call of an input event settled: every handler catches
\* and logs the rejection; handleScroll then falls back to page.evaluate,
\* whose TypeError on a page that is gone and whose rejection are caught too
InputSettle(st, kind, ok) ==
    IF ~ok /\ kind = "scroll" /\ st.page # 0
    THEN [calls |-> <<"scrollBy">>, thrown |-> FALSE]
    ELSE [calls |-> <<>>, thrown |-> FALSE]

\* what an input step leaves alone
inputQuiet == <<analysis, req, call, proc, now, maxSessions, sessions,
                allPending, removePending, ws, cl, stopPend, task, engine,
                onCloseCalls>>

\* the effect of handleInput's first segment r on connection c
InputStep(c, r) ==
    /\ sess' = [sess EXCEPT ![c] = r.st]
    /\ inputs' = [inputs EXCEPT ![c] =
                    [pend |-> @.pend \o r.calls,
                     at |-> IF r.accepted THEN now ELSE @.at]]
    /\ last' = Step(IF r.accepted THEN "input" ELSE "inputDropped", c)
    /\ out' = <<>>

\* message handler: the six input cases call handleInput, any other type
\* ends in the default branch and is logged
InputEvent(c, kind) ==
    /\ ws[c] = "open"
    /\ InputStep(c, IF kind \in InputKinds THEN HandleInput(sess[c], kind)
                    ELSE Dropped(sess[c]))
    /\ Event
    /\ UNCHANGED inputQuiet

\* session.handleInput(message) called for a message of any kind
HandleInputCall(c, kind) ==
    /\ c \in sessions
    /\ InputStep(c, HandleInput(sess[c], kind))
    /\ Event
    /\ UNCHANGED inputQuiet

\* the engine call of the oldest awaited input event settles; an error that
\* left handleInput would end in the catch block of the message handler,
\* which sends an error status
InputSettled(c, ok) ==
    /\ inputs[c].pend # <<>>
    /\ ok => sess[c].page # 0
    /\ LET r == InputSettle(sess[c], Head(inputs[c].pend), ok) IN
         /\ inputs' = [inputs EXCEPT ![c].pend = Tail(@) \o r.calls]
         /\ out' = IF r.thrown THEN Send(c, <<Status(c, "error")>>) ELSE <<>>
    /\ last' = Step(IF ok THEN "inputDone" ELSE "inputFailed", c)
    /\ IF ok \/ sess[c].page = 0 THEN UNCHANGED events ELSE Event
    /\ UNCHANGED <<inputQuiet, sess>>

\* a tick of the clock; a timer that is due fires before the next tick
Tick ==
    /\ now < MaxTime
    /\ \A c \in DOMAIN sess : sess[c].timer => now < sess[c].due
    /\ now' = now + 1
    /\ last' = Step("tick", 0)
    /\ out' = <<>>
    /\ UNCHANGED <<analysis, req, call, proc, inputs, maxSessions, sessions,
                   allPending, removePending, ws, sess, cl, stopPend, task,
                   engine, onCloseCalls, events>>

\* the timer of resetTimeout fires when its window has elapsed
TimedWatchdog(s) ==
    /\ now >= sess[s].due
    /\ Watchdog(s)

\* the connection whose input events are followed
InputConns == {1}

\* a session is started, receives input events of every kind while the clock
\* runs, is stopped, and ends by its watchdog or a closed socket
NextInput ==
    \/ \E c \in InputConns : Connect(c)
    \/ \E c \in InputConns : WsClose(c)
    \/ \E s \in InputConns, o \in Origins : CleanupResume(s, o)
    \/ \E c \in InputConns : StartCmd(c, 1)
    \/ \E t \in Tasks : LaunchOk(t)
    \/ \E t \in Tasks : NewPageOk(t)
    \/ \E t \in Tasks : SetViewportOk(t)
    \/ \E t \in Tasks : CreateCDPOk(t)
    \/ \E t \in Tasks : SetDownloadDone(t)
    \/ \E t \in Tasks : GotoOk(t)
    \/ \E t \in Tasks : StartScreencastDone(t, TRUE)
    \/ \E c \in InputConns : StopCmd(c)
    \/ \E s \in InputConns : StopResume(s)
    \/ \E c \in InputConns, k \in InputKinds \cup UnknownKinds : InputEvent(c, k)
    \/ \E c \in InputConns, k \in InputKinds \cup UnknownKinds :
          HandleInputCall(c, k)
    \/ \E c \in InputConns, ok \in BOOLEAN : InputSettled(c, ok)
    \/ Tick
    \/ \E s \in InputConns : TimedWatchdog(s)

SpecInput == Init /\ [][NextInput]_vars

\* ------------------------------------------------------------------------
\* the collecting stage when collectors fail
\* ------------------------------------------------------------------------
\* the connection whose page is analysed
CollectConns == {1}

\* a session is started and its page is analysed while any of the
\* collectors may fail
NextCollect ==
    \/ \E c \in CollectConns : Connect(c)
    \/ \E c \in CollectConns : WsClose(c)
    \/ \E s \in CollectConns, o \in Origins : CleanupResume(s, o)
    \/ \E c \in CollectConns : StartCmd(c, 1)
    \/ \E t \in Tasks : LaunchOk(t)
    \/ \E t \in Tasks : NewPageOk(t)
    \/ \E t \in Tasks : SetViewportOk(t)
    \/ \E t \in Tasks : CreateCDPOk(t)
    \/ \E t \in Tasks : SetDownloadDone(t)
    \/ \E t \in Tasks : GotoOk(t)
    \/ \E t \in Tasks : StartScreencastDone(t, TRUE)
    \/ \E c \in CollectConns : StartAnalysis(c)
    \/ \E h \in Handles : Navigate(h, 2)
    \/ \E a \in Analyses, failed \in SUBSET Collectors : Collected(a, failed)
    \/ \E a \in Analyses : MetaDone(a)
    \/ \E a \in Analyses, o \in {"verdict", "abort", "noFetch"} : AiDone(a, o)

SpecCollect == InitStream /\ [][NextCollect]_vars

\* ------------------------------------------------------------------------
\* streaming and input while analyses are pending
\* ------------------------------------------------------------------------
\* the connection that streams, receives input and is analysed
BusyConns == {1}

\* a session is started once, streams frames and receives input events
\* while the analyses of its page go through their stages or stay in one
NextBusy ==
    \/ \E c \in BusyConns : Connect(c)
    \/ \E c \in BusyConns : WsClose(c)
    \/ \E s \in BusyConns, o \in Origins : CleanupResume(s, o)
    \/ \E c \in BusyConns : StartCmd(c, 1)
    \/ \E t \in Tasks : LaunchOk(t)
    \/ \E t \in Tasks : NewPageOk(t)
    \/ \E t \in Tasks : SetViewportOk(t)
    \/ \E t \in Tasks : CreateCDPOk(t)
    \/ \E t \in Tasks : SetDownloadDone(t)
    \/ \E t \in Tasks : GotoOk(t)
    \/ \E t \in Tasks : StartScreencastDone(t, TRUE)
    \/ \E c \in BusyConns : StartAnalysis(c)
    \/ \E h \in Handles : Navigate(h, 2)
    \/ \E a \in Analyses : CollectOk(a)
    \/ \E a \in Analyses : MetaDone(a)
    \/ \E a \in Analyses, o \in {"verdict", "noFetch"} : AiDone(a, o)
    \/ \E h \in Handles : ScreencastFrame(h)
    \/ \E c \in BusyConns, k \in InputKinds : InputEvent(c, k)
    \/ \E c \in BusyConns, ok \in BOOLEAN : InputSettled(c, ok)

SpecBusy == InitStream /\ [][NextBusy]_vars

\* ------------------------------------------------------------------------
\* Properties
\* ------------------------------------------------------------------------
\* C1: in every reachable state, under any interleaving of createSession,
\* cleanup (timeout, transport close, launch failure), removeSession and
\* cleanupAll, the registry holds at most maxSessions sessions.
C1_RegistryWithinCapacity == Cardinality(sessions) <= maxSessions

\* the registry is full again after a session was removed and another admitted
C1_Witness ==
    /\ Cardinality(sessions) = maxSessions
    /\ last.op \in {"connect", "create"}
    /\ \E c \in Conns : onCloseCalls[c] > 0 /\ c \notin sessions

\* C2: the capacity test and the insertion of createSession are one step: a
\* call made while the registry holds maxSessions sessions is refused, creates
\* no session and leaves the registry unchanged, a call made below capacity
\* inserts exactly its own session, and as long as nothing was removed at most
\* maxSessions connections ever obtained a session.
C2_AtomicAdmission ==
    /\ []((\A c \in Conns : onCloseCalls[c] = 0 /\ cl[c] = [o \in Origins |-> ClIdle])
            => Cardinality({c \in Conns : ws[c] \in {"open", "closed"}})
                 <= maxSessions)
    /\ [][\A c \in Conns :
            (Connect(c) \/ ApiCreateSession(c)) =>
               IF Cardinality(sessions) >= maxSessions
               THEN /\ sessions' = sessions
                    /\ ws'[c] = "refused"
                    /\ sess'[c] = SessNew
               ELSE /\ sessions' = sessions \cup {c}
                    /\ ws'[c] = "open"]_vars

\* a direct createSession call was refused at capacity, nothing removed so far
C2_Witness ==
    /\ last.op = "createNull"
    /\ Cardinality(sessions) = maxSessions
    /\ \A c \in Conns : onCloseCalls[c] = 0
    /\ last.s \notin sessions

\* C3: however the cleanup() calls of a session interleave, close() is called
\* at most once on each browser handle.
C3_BrowserClosedAtMostOnce == \A h \in Handles : engine[h].closeCalls <= 1

\* C4: the removal hook of a session runs at most once over its lifetime,
\* and exactly once when a cleanup of it has returned.
C4_RemovalHookOnce ==
    /\ \A c \in Conns : onCloseCalls[c] <= 1
    /\ (last.fin /\ last.o # "all") => onCloseCalls[last.s] = 1

\* C5: when the watchdog fires, one 'error' status is sent to the client, and
\* when the cleanup it started on an initialized session returns, the session
\* was registered at the firing and is not registered any more, so that the
\* active count went down by one.
C5_TimeoutFreesOneSlot ==
    /\ last.op = "watchdog" =>
         out = <<[to |-> last.s, type |-> "status", state |-> "error",
                  sid |-> last.s]>>
    /\ (last.o = "timeout" /\ last.fin /\ last.at.live) =>
         last.at.reg /\ last.s \notin sessions

\* C6: once a session has seen its 6th 3xx response (redirectCount above
\* MAX_REDIRECTS) it is terminated: as soon as no stop() or cleanup() call of
\* it is suspended any more it holds no browser, is out of the registry and is
\* not active, and it is never active while its count is above the ceiling.
C6_RedirectLimitTerminates ==
    \A s \in Conns :
      sess[s].redirectCount > MAX_REDIRECTS =>
        /\ (stopPend[s] = 0 /\ \A o \in Origins : cl[s][o].pc = "idle") =>
              ~sess[s].isActive
        /\ (stopPend[s] = 0 /\ \A o \in Origins : cl[s][o].pc = "idle") =>
              sess[s].browser = 0 /\ s \notin sessions

\* the hostname up to its first dot, and between its first and second dot
C7_Label1(h) ==
    IF \E i \in 1..Len(h) : h[i] = "."
    THEN SubSeq(h, 1, (CHOOSE i \in 1..Len(h) :
                         h[i] = "." /\ \A j \in 1..(i - 1) : h[j] # ".") - 1)
    ELSE h

C7_Rest(h) == SubSeq(h, Len(C7_Label1(h)) + 2, Len(h))

\* a URL with a scheme other than http/https, or with a loopback or private
\* host: 127.x, 10.x, 192.168.x, 172.16-31.x, localhost, 0.0.0.0, ::1
C7_Unsafe(u) ==
    /\ u.parses
    /\ \/ u.protocol \notin {"http:", "https:"}
       \/ C7_Label1(u.hostname) \in {<<"1", "2", "7">>, <<"1", "0">>}
       \/ /\ C7_Label1(u.hostname) = <<"1", "9", "2">>
          /\ C7_Label1(C7_Rest(u.hostname)) = <<"1", "6", "8">>
       \/ /\ C7_Label1(u.hostname) = <<"1", "7", "2">>
          /\ C7_Label1(C7_Rest(u.hostname)) \in
               {<<"1", "6">>, <<"1", "7">>, <<"1", "8">>, <<"1", "9">>,
                <<"3", "0">>, <<"3", "1">>}
                 \cup {<<"2", d>> : d \in Digits}
       \/ u.hostname \in {<<"l", "o", "c", "a", "l", "h", "o", "s", "t">>,
                          <<"0", ".", "0", ".", "0", ".", "0">>,
                          <<":", ":", "1">>, <<"[", ":", ":", "1", "]">>}

\* C7: a 'start' whose URL has a scheme other than http/https or a private or
\* loopback host sends exactly one 'error' status and nothing else, starts no
\* initialize continuation, never reaches the engine's launch, and leaves the
\* browser, page and debug-session handles of the session as they were.
C7_RejectedUrlAllocatesNothing ==
    [][\A c \in Conns, u \in Urls :
         (StartCmd(c, u) /\ C7_Unsafe(UrlTable[u])) =>
            /\ out' = <<[to |-> c, type |-> "status", state |-> "error",
                         sid |-> c]>>
            /\ task' = task
            /\ engine' = engine
            /\ sess'[c].browser = sess[c].browser
            /\ sess'[c].page = sess[c].page
            /\ sess'[c].cdpClient = sess[c].cdpClient]_vars

\* a loopback URL was rejected on a session that holds no handle
C7_Witness ==
    /\ last.op = "startRejected"
    /\ C7_Unsafe(UrlTable[sess[last.s].originalUrl])
    /\ UrlTable[sess[last.s].originalUrl].protocol = "http:"
    /\ out = <<Status(last.s, "error")>>
    /\ sess[last.s].browser = 0 /\ sess[last.s].page = 0
    /\ sess[last.s].cdpClient = 0
    /\ \A t \in Tasks : task[t].pc = "unused"

\* C8: when the URL of a 'start' is rejected, cleanup is invoked for the
\* session, so that the session has left the registry.
C8_RejectedUrlFreesSlot ==
    last.op = "startRejected" =>
       \/ last.s \notin sessions
       \/ \E o \in Origins : cl[last.s][o].pc # "idle"

\* C9: after a termination path has run to its end - the cleanup of the
\* watchdog or of the transport close returned, or a 'stop' command was
\* handled - the session is not in the registry and holds no browser handle.
C9_TerminationReleasesSlot ==
    /\ (last.fin /\ last.o \in {"timeout", "close"}) =>
          last.s \notin sessions /\ sess[last.s].browser = 0
    /\ \A s \in Conns :
         ((last.op = "stop" \/ last.op = "stopResume") /\ last.s = s
            /\ stopPend[s] = 0) =>
               s \notin sessions /\ sess[s].browser = 0

\* C10: a connection arriving while the registry is at capacity gets exactly
\* one 'error' status, is closed by the server, gets no session, and the
\* registry is unchanged.
C10_RefusalIsExplicit ==
    [][\A c \in Conns :
         (Connect(c) /\ Cardinality(sessions) >= maxSessions) =>
            /\ Len(out') = 1
            /\ out'[1].to = c
            /\ out'[1].type = "status"
            /\ out'[1].state = "error"
            /\ ws'[c] = "refused"
            /\ sess'[c] = SessNew
            /\ sessions' = sessions]_vars

\* a connection was refused at capacity with one error status
C10_Witness ==
    /\ last.op = "connectRefused"
    /\ Cardinality(sessions) = maxSessions
    /\ ws[last.s] = "refused"
    /\ out = <<RawStatus(last.s, "error")>>
    /\ last.s \notin sessions

\* C17: calculateSimilarity is symmetric in its arguments, is 1 for equal
\* strings (two empty strings included), and its edit distance lies between
\* 0 and the length of the longer string, so the similarity lies in [0, 1]
C17_SimilaritySymmetricBounded ==
    Returned("calculateSimilarity") =>
        LET r == call.res
            swapped == CalculateSimilarity(call.b, call.a)
            maxLen == IF Len(call.a) >= Len(call.b) THEN Len(call.a)
                      ELSE Len(call.b)
        IN /\ r.den > 0
           /\ r.num * swapped.den = swapped.num * r.den
           /\ call.a = call.b => r.num = r.den
           /\ 0 <= r.distance /\ r.distance <= maxLen
           /\ 0 <= r.num /\ r.num <= r.den

\* two different strings of different lengths were compared
C17_Witness ==
    /\ Returned("calculateSimilarity")
    /\ Len(call.a) > Len(call.b)
    /\ call.b # <<>>
    /\ call.res.distance = 2

\* the forward remap of C15: each digit to the letter it impersonates, i to l
C15_Forward(c) ==
    CASE c = "0" -> "o" [] c = "1" -> "l" [] c = "3" -> "e" [] c = "4" -> "a"
      [] c = "5" -> "s" [] c = "7" -> "t" [] c = "8" -> "b" [] c = "i" -> "l"
      [] OTHER -> c

\* norm(h) of C15: the forward remap, then every non-alphabetic character
\* removed
C15_Norm(h) ==
    SelectSeq([i \in 1..Len(h) |-> C15_Forward(ToLower(h)[i])], IsLetter)

\* C15: detectTyposquatting(h, h').detected is true exactly when h contains
\* a digit and norm(h) = norm(h'); it is false for every pair whose norm
\* values differ
C15_DetectedIffNormsEqual ==
    Returned("detectTyposquatting") =>
        (call.res.detected <=>
            HasNumbers(call.a) /\ C15_Norm(call.a) = C15_Norm(call.b))

\* the lower-cased hostname of a URL as C16 reads it: a URL without a scheme
\* is read as https://
C16_Hostname(u) ==
    IF ParseURL(u).ok THEN ToLower(ParseURL(u).hostname)
    ELSE ToLower(ParseURL(Chars("https://") \o u).hostname)

\* C16: detectRedirect returns redirected = true exactly when the two
\* lower-cased hostnames differ, with originalDomain and currentDomain equal
\* to them; for https://amaz0n.com and https://amazon.com it returns
\* redirected, typosquatting.detected, "amaz0n.com" and "amazon.com"
C16_RedirectedIffHostnamesDiffer ==
    Returned("detectRedirect") =>
        /\ call.res.originalDomain = C16_Hostname(call.a)
        /\ call.res.currentDomain = C16_Hostname(call.b)
        /\ call.res.redirected <=> C16_Hostname(call.a) # C16_Hostname(call.b)
        /\ (call.a = Chars("https://amaz0n.com")
              /\ call.b = Chars("https://amazon.com")) =>
                /\ call.res.redirected
                /\ call.res.typosquatting.detected
                /\ call.res.originalDomain = Chars("amaz0n.com")
                /\ call.res.currentDomain = Chars("amazon.com")

\* the final extension of a filename: its last dot and what follows it,
\* nothing for a name without a dot
C18_FinalExtension(name) ==
    IF LastIndexOf(name, ".") = 0 THEN <<>>
    ELSE SubSeq(ToLower(name), LastIndexOf(name, "."), Len(name))

\* a content type is declared when the response named one
C18_Declared(contentType) == contentType # Unknown /\ contentType # <<>>

\* the score of C18: 30, plus 50 for the double-extension pattern, plus 30
\* for a dangerous final extension, plus 20 for a declared content type that
\* does not contain the type expected for the extension; at most 100
C18_Score(name, contentType) ==
    LET expected == GetExpectedContentType(C18_FinalExtension(name))
        sum == 30 + (IF DOUBLE_EXTENSION_PATTERN(name) THEN 50 ELSE 0)
                  + (IF C18_FinalExtension(name) \in DANGEROUS_EXTENSIONS
                     THEN 30 ELSE 0)
                  + (IF /\ C18_Declared(contentType)
                        /\ expected # <<>>
                        /\ ~Includes(contentType, expected)
                     THEN 20 ELSE 0)
    IN IF sum < 100 THEN sum ELSE 100

\* C18: analyzeFileRisk returns that score, the level 'danger' from 70,
\* 'warning' from 40 and 'safe' below, and blocked = true; report.pdf declared
\* as application/pdf scores exactly 30 and is 'safe'
C18_ScoreFormula ==
    Returned("analyzeFileRisk") =>
        LET score == C18_Score(call.a, call.b)
        IN /\ call.res.riskScore = score
           /\ call.res.riskLevel = IF score >= 70 THEN "danger"
                                   ELSE IF score >= 40 THEN "warning"
                                   ELSE "safe"
           /\ call.res.blocked
           /\ (call.a = Chars("report.pdf")
                 /\ call.b = Chars("application/pdf")) =>
                   call.res.riskScore = 30 /\ call.res.riskLevel = "safe"

\* a verdict of at least 80 and 'danger'
C19_Danger(info) ==
    ~info.thrown /\ info.risk.riskScore >= 80 /\ info.risk.riskLevel = "danger"

\* C19: every filename that matches the double-extension pattern yields
\* riskScore >= 80 and riskLevel 'danger' on both detection paths and for
\* every declared content type: on the response path for the name the
\* handler extracts, on the request path for the name the inspected URL ends
\* with
C19_DoubleExtensionIsDanger ==
    /\ (Returned("onResponse") /\ call.res.sent
          /\ DOUBLE_EXTENSION_PATTERN(call.res.info.filename))
         => C19_Danger(call.res.info)
    /\ (Returned("onRequest") /\ IsDownloadUrl(call.a)
          /\ DOUBLE_EXTENSION_PATTERN(UrlFilename(call.a)))
         => call.res.sent /\ C19_Danger(call.res.info)

\* the analyzeInBackground call a has settled
C11_Settled(a) == analysis[a].pc \in {"complete", "rejected"}

\* C11: the events of every analysis started on a live session are, in
\* order, analysis_started, one or more analysis_progress, then exactly one
\* terminal event (analysis_complete or analysis_error), also when data
\* collection or the AI step throws
C11_StartedProgressTerminal ==
    \A a \in Analyses :
        C11_Settled(a) =>
            LET sent == analysis[a].sent
                n == Len(sent)
            IN /\ n >= 3
               /\ sent[1] = "analysis_started"
               /\ \A i \in 2..(n - 1) : sent[i] = "analysis_progress"
               /\ sent[n] \in {"analysis_complete", "analysis_error"}

\* C13: analyzeWithAIMultimodal never propagates a failure: without a
\* credential, on a timeout, a transport failure, a non-OK answer or empty
\* content it returns enabled = false, riskScore = 50, riskLevel = 'warning',
\* the analysis ends with analysis_complete, and the session is left as it
\* was
C13_AiFailureDegrades ==
    /\ [](\A a \in Analyses :
            (analysis[a].ai \in AiFailures \cup {"noFetch"}) =>
                /\ analysis[a].verdict = Degraded
                /\ analysis[a].pc = "complete"
                /\ analysis[a].sent[Len(analysis[a].sent)]
                     = "analysis_complete")
    /\ [][(\E a \in Analyses, o \in AiOutcomes : AiDone(a, o)) =>
            sess' = sess /\ sessions' = sessions]_vars

\* the request to the AI engine timed out and the client of the still active
\* session received analysis_complete with the degraded verdict
C13_Witness ==
    /\ last.op = "aiDone"
    /\ \E a \in Analyses :
         /\ analysis[a].ai = "abort"
         /\ analysis[a].verdict = Degraded
         /\ sess[analysis[a].s].isActive
         /\ out = <<AnalysisMsg(analysis[a].s, a, "analysis_complete",
                                "warning")>>

\* C14: every event sent to a client on behalf of a session (frame, status,
\* urlChange, analysis started/progress/complete/error, download-blocked)
\* carries that session's id
C14_EventsCarrySessionId ==
    \A i \in 1..Len(out) :
        (/\ last.op \notin {"connectRefused", "connectNull"}
         /\ out[i].type \in {"frame", "status", "urlChange",
                             "analysis_started", "analysis_progress",
                             "analysis_complete", "analysis_error",
                             "download_blocked"})
          => out[i].sid = out[i].to

\* the terminal messages delivered for a request
C12_Terminals(rq) ==
    Len(SelectSeq(rq.sent,
                  LAMBDA m : m \in {"analysis_complete", "analysis_error"}))

\* C12: every 'analyze' request with a valid http/https URL ends with
\* exactly one terminal message (analysis_complete or analysis_error) while
\* the socket stays open, whichever step fails; until then the handler has a
\* step to take and has sent no terminal message twice; a request with an
\* invalid URL gets one 'error' message and launches no browser
C12_OneTerminalMessage ==
    \A r \in Reqs :
        LET rq == req[r]
            valid == rq.url # 0 /\ IsValidUrl(UrlTable[rq.url])
        IN rq.pc # "unused" =>
             /\ C12_Terminals(rq) <= 1
             /\ (valid /\ rq.open /\ rq.pc \in {"close", "done"})
                  => C12_Terminals(rq) = 1
             /\ (valid /\ rq.pc \notin {"close", "done"})
                  => /\ C12_Terminals(rq) = 0
                     /\ ENABLED (ReqLaunchOk(r) \/ ReqNewPageOk(r)
                                   \/ ReqSetUserAgentOk(r)
                                   \/ ReqSetViewportOk(r)
                                   \/ ReqGotoDone(r, TRUE) \/ ReqCollectOk(r)
                                   \/ ReqMetaDone(r)
                                   \/ \E o \in AiOutcomes : ReqAiDone(r, o))
             /\ ~valid => (/\ rq.pc = "done"
                           /\ rq.sent = <<"error">>
                           /\ ~rq.launched)

\* data collection failed for a request whose socket stayed open, and the
\* client received analysis_error after analysis_started
C12_Witness ==
    \E r \in Reqs :
        /\ req[r].pc = "done"
        /\ req[r].open
        /\ req[r].launched
        /\ req[r].sent = <<"analysis_progress", "analysis_progress",
                           "analysis_started", "analysis_progress",
                           "analysis_error">>

\* C20: after a shutdown signal the process terminates within the grace
\* period, also when the cleanup of some session never completes: while the
\* shutdown is under way, the forced exit timer is armed or the shutdown has
\* a step to take
C20_ShutdownBounded ==
    proc.pc \in {"cleaning", "closing"} =>
        \/ proc.timer
        \/ ENABLED (\/ \E s \in Conns, o \in Origins :
                          SettledCleanupResume(s, o)
                    \/ CleanupAllReturned)

\* C25: from its creation until its cleanup a session has an armed watchdog
\* in every lifecycle state, also when it was admitted and never sent
\* 'start' and when it was stopped, so that every admitted session is
\* cleaned up in the end
C25_WatchdogArmedUntilCleanup ==
    \A c \in Conns :
        (/\ c \in sessions
         /\ ws[c] = "open"
         /\ \A o \in Origins : cl[c][o].pc = "idle")
          => sess[c].timer

\* C26: cleanup() stops the frame stream, then releases the browser, then
\* clears the watchdog, then invokes the removal hook: the browser is closed
\* only once the stream is stopped, the watchdog is cleared only once the
\* stream is stopped and the browser is released, and the hook runs last
C26_CleanupOrder ==
    [][\A s \in Conns :
          /\ (\E h \in DOMAIN engine :
                /\ engine'[h].closeCalls > engine[h].closeCalls
                /\ sess[s].browser = h)
               => sess'[s].cdpClient = 0
          /\ (sess[s].timer /\ ~sess'[s].timer)
               => sess'[s].cdpClient = 0 /\ sess'[s].browser = 0
          /\ onCloseCalls'[s] > onCloseCalls[s]
               => /\ ~sess'[s].timer
                  /\ sess'[s].cdpClient = 0
                  /\ sess'[s].browser = 0]_vars

\* the browsers of session c that were launched and are not closed
C21_LiveBrowsers(c) ==
    {h \in DOMAIN engine : engine[h].owner = c /\ ~engine[h].closed}

\* C21: at every moment a session owns at most one live browser and at most
\* one registered frame-stream handler, and no browser belongs to two
\* sessions, also after a second 'start' and after 'start' following 'stop'
C21_OneBrowserOneStream ==
    /\ \A c \in Conns :
         /\ Cardinality(C21_LiveBrowsers(c)) <= 1
         /\ \A h \in C21_LiveBrowsers(c) : engine[h].frameHandlers <= 1
    /\ \A c, d \in Conns :
         (sess[c].browser # 0 /\ sess[c].browser = sess[d].browser) => c = d

\* C22: once streaming has started every frame event leads to exactly one
\* 'frame' message to the client, followed by exactly one acknowledgement to
\* the engine the frame came from and to no other; an acknowledgement that
\* fails (the session holds no client any more) is swallowed
C22_FrameForwardedThenAcked ==
    [][\A h \in DOMAIN engine :
          ScreencastFrame(h) =>
              LET c == engine[h].owner IN
              /\ ws[c] = "open" => out' = <<FrameMsg(c)>>
              /\ last'.h = h
              /\ IF sess[c].cdpClient = 0
                 THEN last'.acks = 0
                 ELSE last'.acks = 1 /\ last'.ackTo = h]_vars

\* an input step of connection c: the first segment of handleInput or the
\* settling of an awaited engine call
C24_InputStep(c) ==
    \/ \E k \in InputKinds \cup UnknownKinds : InputEvent(c, k)
    \/ \E k \in InputKinds \cup UnknownKinds : HandleInputCall(c, k)
    \/ \E ok \in BOOLEAN : InputSettled(c, ok)

\* C23: every input event that handleInput accepts re-arms the watchdog for
\* a full window from that moment, so the watchdog never fires sooner than
\* one window after the last accepted input; an input event that arrives
\* while the session is not active is dropped and re-arms nothing
C23_InputRearmsWatchdog ==
    /\ [](\A c \in Conns :
            /\ (sess[c].timer /\ inputs[c].at >= 0)
                 => sess[c].due >= inputs[c].at + SESSION_TIMEOUT
            /\ (last.op = "input" /\ last.s = c)
                 => /\ sess[c].timer
                    /\ inputs[c].at = now
                    /\ sess[c].due = now + SESSION_TIMEOUT
            /\ (last.op = "watchdog" /\ last.s = c /\ inputs[c].at >= 0)
                 => now >= inputs[c].at + SESSION_TIMEOUT)
    /\ [][\A c \in Conns :
            (C24_InputStep(c) /\ last'.op # "input") => sess'[c] = sess[c]]_vars

\* an input event was accepted after the session had been armed for a tick,
\* and the watchdog fired a full window after that event
C23_Witness ==
    /\ last.op = "watchdog"
    /\ inputs[last.s].at >= 1
    /\ now = inputs[last.s].at + SESSION_TIMEOUT

\* C24: handling one input event never ends or alters the session: for an
\* unknown kind and for a known kind whose engine call throws, handleInput
\* completes without raising, no status is sent, and isActive, the browser
\* and page handles, currentUrl and the registry stay as they were
C24_InputIsIsolated ==
    [][\A c \in Conns :
          C24_InputStep(c) =>
              /\ out' = <<>>
              /\ sess'[c].isActive = sess[c].isActive
              /\ sess'[c].browser = sess[c].browser
              /\ sess'[c].page = sess[c].page
              /\ sess'[c].cdpClient = sess[c].cdpClient
              /\ sess'[c].currentUrl = sess[c].currentUrl
              /\ sessions' = sessions
              /\ cl' = cl]_vars

\* an input event was accepted, the engine call it made was rejected with
\* none left to await, and the session is still registered and active
C24_Witness ==
    \E c \in Conns :
        /\ last.op = "inputFailed"
        /\ last.s = c
        /\ inputs[c].pend = <<>>
        /\ inputs[c].at >= 0
        /\ sess[c].isActive
        /\ sess[c].page # 0
        /\ c \in sessions

\* C27: a frame event that arrives after the cleanup of its session has
\* begun (while cleanup awaits the end of the stream or of the browser, or
\* after it has finished) is a no-op: no 'frame' message is sent
C27_FrameAfterCleanupIsNoOp ==
    [][\A h \in DOMAIN engine :
          (/\ ScreencastFrame(h)
           /\ \/ \E o \in Origins : cl[engine[h].owner][o].pc # "idle"
              \/ engine[h].owner \notin sessions)
            => out' = <<>>]_vars

\* the analyzeInBackground calls that exist
C28_Started(an) == {a \in Analyses : an[a].pc # "unused"}

\* C28: for every navigation of the main frame to a URL that differs from
\* currentUrl the observer sends exactly one urlChange event with the new
\* URL and then starts exactly one analysis, which uses the originalUrl the
\* session retained
C28_NavigationNotifiesAndAnalyses ==
    [][\A h \in DOMAIN engine, u \in 1..Len(UrlTable) :
          (Navigate(h, u) /\ ws[engine[h].owner] = "open") =>
              LET c == engine[h].owner
                  new == C28_Started(analysis') \ C28_Started(analysis)
              IN /\ Len(SelectSeq(out', LAMBDA m : m.type = "urlChange")) = 1
                 /\ out'[1] = UrlChangeMsg(c)
                 /\ sess'[c].currentUrl = u
                 /\ Cardinality(new) = 1
                 /\ \A a \in new : /\ analysis'[a].s = c
                                    /\ analysis'[a].orig = sess[c].originalUrl
                                    /\ analysis'[a].url = u]_vars

\* C29: the four collectors are independent: when a single one fails, the
\* results of the others are kept, the failed one degrades to null or
\* empty, and the analysis goes on to the analyzing stage
C29_CollectorsIndependent ==
    \A a \in Analyses :
        (analysis[a].pc \notin {"unused", "collecting"}
           /\ Cardinality(analysis[a].failed) = 1)
          => /\ analysis[a].pc \in {"meta", "ai", "complete"}
             /\ \A c \in Collectors \ analysis[a].failed :
                  analysis[a].data[c] = "full"
             /\ \A c \in analysis[a].failed :
                  analysis[a].data[c] \in {"null", "empty"}

\* the events of analysis a are analysis_started, analysis_progress one or
\* more times, and one terminal event
C30_Ordered(a) ==
    LET sent == analysis[a].sent
        n == Len(sent)
    IN /\ n >= 3
       /\ sent[1] = "analysis_started"
       /\ \A i \in 2..(n - 1) : sent[i] = "analysis_progress"
       /\ sent[n] \in {"analysis_complete", "analysis_error"}

\* C30: a navigation during an analysis of the same session does not cancel
\* it: the step that starts the second analysis leaves the first as it is,
\* and each of the two analyses ends with its own terminal event after its
\* started and progress events
C30_NoCancellation ==
    /\ [][\A h \in DOMAIN engine, u \in 1..Len(UrlTable), a \in Analyses :
            (Navigate(h, u) /\ analysis[a].pc # "unused")
              => analysis'[a] = analysis[a]]_vars
    /\ [](\A a, b \in Analyses :
            (/\ a # b
             /\ analysis[a].s = analysis[b].s
             /\ analysis[a].pc \in {"complete", "rejected"}
             /\ analysis[b].pc \in {"complete", "rejected"})
              => C30_Ordered(a) /\ C30_Ordered(b))

\* C31: an analysis request is fixed when it is created: the url that its
\* analysis_complete event reports is the url of its analysis_started event,
\* also when the page navigates between the two (originalUrl and the
\* redirected flag are constants of the call)
C31_RequestFixedAtCreation ==
    \A a \in Analyses :
        analysis[a].pc = "complete" => analysis[a].dataUrl = analysis[a].url

\* the analyses of session c that have not settled
C32_Pending(c) ==
    {a \in Analyses : analysis[a].s = c
                        /\ analysis[a].pc \in {"collecting", "meta", "ai"}}

\* C32: while an analysis of a session is pending, also one whose AI call
\* never returns, a frame event of the session is handled at once, is
\* forwarded and acknowledged, and an input command is handled at once and
\* translated into its engine call; no frame or input step touches or awaits
\* an analysis
C32_AnalysisNeverBlocks ==
    /\ [](\A c \in BusyConns :
            (C32_Pending(c) # {} /\ events > 0) =>
                /\ \A h \in Handles :
                      (/\ engine[h].owner = c
                       /\ engine[h].casting
                       /\ engine[h].frameHandlers > 0
                       /\ ~engine[h].closed) => ENABLED ScreencastFrame(h)
                /\ ws[c] = "open" =>
                      \A k \in InputKinds : ENABLED InputEvent(c, k))
    /\ [][\A c \in BusyConns :
            C32_Pending(c) # {} =>
                /\ \A h \in Handles :
                      (ScreencastFrame(h) /\ engine[h].owner = c) =>
                          /\ ws[c] = "open" =>
                                /\ Len(out') >= 1
                                /\ \A i \in 1..Len(out') : out'[i] = FrameMsg(c)
                          /\ sess[c].cdpClient # 0 => last'.acks >= 1
                          /\ analysis' = analysis
                /\ \A k \in InputKinds :
                      (InputEvent(c, k) /\ sess[c].isActive /\ sess[c].page # 0) =>
                          /\ last'.op = "input"
                          /\ inputs'[c].pend = Append(inputs[c].pend, k)
                          /\ analysis' = analysis]_vars

\* with an analysis waiting for the AI engine and an accepted input event
\* waiting for its engine call, a frame was forwarded and acknowledged
C32_Witness ==
    \E a \in Analyses :
        /\ analysis[a].pc = "ai"
        /\ last.op = "frame"
        /\ last.s = analysis[a].s
        /\ last.acks = 1
        /\ out = <<FrameMsg(last.s)>>
        /\ inputs[last.s].pend # <<>>

\* C33: when the launch of the browser, the opening of the page, the
\* creation of the debug session or the initial navigation fails, one 'error'
\* status is sent, the catch block calls cleanup() once and initialize ends;
\* every browser the session acquired so far is one that this cleanup closes
\* (the one the session holds) or that had close() called on it before; when
\* the cleanup has returned, the session holds no handle and is in the
\* registry no more
C33_InitFailureIsTerminal ==
    /\ [][\A t \in DOMAIN task :
            InitFail(t) =>
                LET s == task[t].s IN
                /\ out' = Send(s, <<Status(s, "error")>>)
                /\ last'.op = "initCatch" /\ last'.o = "init" /\ last'.s = s
                /\ task'[t] = TaskDone
                /\ ~sess'[s].timer
                /\ \/ last'.fin
                   \/ cl'[s]["init"].pc \in {"stopScreencast", "browserClose"}
                /\ \A h \in DOMAIN engine :
                      engine[h].owner = s =>
                          \/ engine[h].closeCalls >= 1
                          \/ sess[s].browser = h]_vars
    /\ []((last.o = "init" /\ last.fin) =>
            /\ last.s \notin sessions
            /\ sess[last.s].browser = 0
            /\ sess[last.s].page = 0
            /\ ~sess[last.s].isActive
            /\ cl[last.s]["init"].pc = "idle")

\* C34: cleanupAll() starts the cleanup of every registered session before it
\* awaits any; when it returns, the cleanup of each of them has completed,
\* none of them holds a browser or a streaming handle, and the registry is
\* empty (stated for the sessions of a call that returns at once and for
\* the session whose cleanup the call awaited last)
C34_CleanupAllCompletes ==
    /\ [][CleanupAll =>
            \A s \in sessions :
                /\ ~sess'[s].timer
                /\ \/ cl'[s]["all"].pc \in {"stopScreencast", "browserClose"}
                   \/ onCloseCalls'[s] = onCloseCalls[s] + 1]_vars
    /\ [][(CleanupAll /\ ~allPending') =>
            /\ sessions' = {}
            /\ \A s \in sessions :
                  sess'[s].browser = 0 /\ sess'[s].cdpClient = 0]_vars
    /\ []((last.op = "cleanupResume" /\ last.o = "all" /\ last.fin
              /\ ~allPending) =>
            /\ sessions = {}
            /\ \A c \in Conns : cl[c]["all"].pc = "idle"
            /\ sess[last.s].browser = 0
            /\ sess[last.s].cdpClient = 0)

\* the browsers that were launched and on which close() was not called
C35_Live == {h \in DOMAIN engine : engine[h].owner # 0 /\ engine[h].closeCalls = 0}

\* C35: every session that holds a live browser is in the registry, so there
\* are never more live browsers than maxSessions, also when 'start' arrives
\* on a connection whose session was cleaned up with its socket still open
C35_LiveBrowsersAreRegistered ==
    /\ \A c \in Conns :
          (sess[c].browser # 0 /\ sess[c].browser \in C35_Live) => c \in sessions
    /\ Cardinality(C35_Live) <= maxSessions

\* no initialize(), cleanup() or stop() call of session c is suspended
C36_Settled(c) ==
    /\ \A t \in DOMAIN task : task[t].s # c
    /\ \A o \in Origins : cl[c][o].pc = "idle"
    /\ stopPend[c] = 0

\* C36: when the socket of a session closed while its initialize() was in
\* flight, then once initialize() and cleanup() have settled the session
\* holds no browser, every browser launched for it was closed, and the
\* session is not active
C36_CleanupDuringInitialize ==
    \A c \in Conns :
        (ws[c] = "closed" /\ C36_Settled(c)) =>
            /\ sess[c].browser = 0
            /\ ~sess[c].isActive
            /\ \A h \in DOMAIN engine :
                  engine[h].owner = c => engine[h].closeCalls >= 1

\* C37: once cleanup() of a session has completed no watchdog timer is armed
\* for it, also when an input event was handled while cleanup was suspended
\* in one of its awaits (stated for the step in which a cleanup returns)
C37_NoTimerAfterCleanup ==
    (last.fin /\ last.s # 0) => ~sess[last.s].timer

\* C38: a session leaves the registry only after its cleanup() has been
\* invoked, under any interleaving of createSession with a running
\* cleanupAll() or removeSession(): the step that drops a session finds a
\* cleanup of it that has returned, returns now or is suspended
C38_LeavesOnlyAfterCleanup ==
    [][\A c \in Conns :
          (c \in sessions /\ c \notin sessions') =>
              \/ onCloseCalls'[c] >= 1
              \/ \E o \in Origins : cl'[c][o].pc # "idle"]_vars

\* C39: in every result of detectRedirect typosquatting.detected implies
\* redirected: a pair with equal hostnames is never flagged as typosquatting
C39_TyposquattingImpliesRedirected ==
    Returned("detectRedirect") =>
        (call.res.typosquatting.detected => call.res.redirected)

\* C40: while a session is active its currentUrl is the URL of the last
\* navigation of the main frame that the observer saw, also after an
\* initialize() whose initial load was redirected, and a later navigation to
\* the URL the page is at already produces no urlChange event
C40_CurrentUrlIsPageUrl ==
    /\ [](\A c \in Conns :
            (sess[c].isActive /\ sess[c].page # 0) =>
                sess[c].currentUrl = engine[sess[c].page].url)
    /\ [][\A h \in DOMAIN engine, u \in 1..Len(UrlTable) :
            (Navigate(h, u) /\ sess[engine[h].owner].isActive
               /\ u = engine[h].url) =>
                \A i \in 1..Len(out') : out'[i].type # "urlChange"]_vars

====
